---- MODULE Spec2Model ----
(***************************************************************************)
(* State-machine model of workflow/context_shelf.py (ContextShelf and      *)
(* ShelfEntry) and workflow/retrieval_index.py (RetrievalIndex).           *)
(*                                                                         *)
(* A content string is represented by its length, the only thing the       *)
(* shelf reads from it (len(text) // 4 and the 200 character preview).     *)
(* A tag map (dict[str, str]) is a set of <<key, value>> pairs with        *)
(* unique keys.  time.time() is a clock read once per call of it: `now` is  *)
(* the latest reading and `tick` the advance between two readings, which   *)
(* is 0 when the clock is too coarse to tell the calls of a behaviour      *)
(* apart and 1 when every reading is later than the one before.  An        *)
(* entry's id stands for the identity of the Python object; it is not a    *)
(* field of the dataclass and is ignored by dataclass equality.            *)
(*                                                                         *)
(* `held` is the list object the latest retrieve returned to its caller:   *)
(* either the list self.entries itself (alias) or a list of its own.       *)
(* `iheld` is the same for the latest query, critical, stale or by_source  *)
(* of the index, `ilast` the latest index call, `chunks` the index list.   *)
(* `acquired` is the engine's acquired_content map.  `threads` holds, for  *)
(* each thread of a host that calls store without a lock, the call it is   *)
(* in the middle of; `overlapped` records that two such calls overlapped.  *)
(* Where the code looks into a string (auto_tag), the string is taken from *)
(* a table of character sequences; elsewhere a content is its length.      *)
(***************************************************************************)
EXTENDS FiniteSets, Integers, Sequences, TLC

VARIABLES capacity, entries, now, tick, last, retrievedAfter, calls, held,
          chunks, ilast, iheld, acquired, threads, overlapped, engine, cycle, boot

vars == <<capacity, entries, now, tick, last, retrievedAfter, calls, held,
          chunks, ilast, iheld, acquired, threads, overlapped, engine, cycle,
          boot>>

shelfVars == <<capacity, entries, now, tick, last, retrievedAfter, held>>

indexVars == <<chunks, ilast, iheld>>

\* WorkflowEngine.context["acquired_content"] and the rest of the engine
engineVars == <<acquired, engine>>

\* the store calls in progress on the threads of a host without a lock
threadVars == <<threads, overlapped>>

\* the TurnCycle a FailMarker scans, and the BootLoader with its RunLog
cycleVars == <<cycle, boot>>

(* ------------------------------ bounds --------------------------------- *)

\* number of shelf calls a behaviour makes
MaxCalls == 4

(* ------------------------------ inputs --------------------------------- *)

Capacities == {0, 2, 3, 60}

\* store calls: <<len(content), tier, source, tags>>.  Contents of 0..7
\* characters cost 1 token, 8 characters cost 2, 12 characters cost 3, and
\* 240 characters, more than the preview of compress, cost 60
StoreArgs == {<<3, "HOT", "a", {}>>,
              <<240, "COLD", "a", {}>>,
              <<12, "HOT", "a", {}>>,
              <<8, "PINNED", "a", {}>>,
              <<3, "SCRATCH", "a", {}>>,
              <<3, "COLD", "a", {<<"k", "v">>, <<"m", "v">>}>>,
              <<3, "COLD", "a", {}>>,
              <<3, "WARM", "a", {<<"k", "v">>}>>,
              <<8, "WARM", "a", {}>>}

\* retrieve calls: <<tier, tag_filter>>
RetrieveArgs == {<<"None", {}>>,
                 <<"COLD", {}>>,
                 <<"None", {<<"k", "v">>}>>,
                 <<"COLD", {<<"k", "v">>, <<"m", "v">>}>>,
                 <<"None", {<<"k", "v">>, <<"m", "w">>}>>}

PromoteTiers == {"HOT", "WARM"}

DemoteTiers == {"COLD", "SCRATCH"}

CompressTiers == {"COLD", "WARM"}

\* clock advance between two successive readings of time.time()
Ticks == {0, 1}

\* index_raw calls: <<len(content), source, type, relevance, volatility,
\* scope, trust>>; metadata is left out (None)
IndexRawArgs ==
    {<<3, "auth.py", "source-code", "critical", "static", "this-file", "verified">>,
     <<8, "auth.py", "source-code", "useful", "stale-risk", "this-file", "verified">>,
     <<3, "user", "user-intent", "critical", "live", "whole-project", "stale">>,
     <<12, "grep", "tool-result", "ambient", "stale-risk", "cross-module", "stale">>}

\* index calls: the chunk the caller built, <<len(content), source,
\* token_count, type, relevance, volatility, scope, trust>>
IndexArgs ==
    {<<3, "user", 7, "docs", "noise", "static", "this-module", "reported">>}

\* query calls: <<type, relevance, volatility, scope, trust>>
QueryArgs ==
    {<<"None", "None", "None", "None", "None">>,
     <<"source-code", "critical", "None", "None", "None">>,
     <<"None", "None", "stale-risk", "None", "None">>,
     <<"None", "None", "None", "None", "stale">>,
     <<"source-code", "None", "None", "this-file", "verified">>,
     <<"config", "None", "None", "None", "None">>}

BySourceArgs == {"auth.py", "user", "README"}

\* auto_tag calls: <<content, source>>
AutoTagArgs ==
    {<<"abc", "auth.py">>, <<"an Error", "Tests.md">>, <<"def f(x)", "cfg.yaml">>,
     <<"TODO: fix", "user">>, <<"import failed", "grep">>, <<"", "go.sum">>}

\* feed_context calls: <<content, source, tier>>
FeedArgs ==
    {<<"abc", "auth.py", "WARM">>, <<"an Error", "user", "HOT">>,
     <<"def f(x)", "auth.py", "COLD">>, <<"import failed", "README", "SCRATCH">>,
     <<"", "user", "PINNED">>, <<"abcdefg", "user", "WARM">>}

\* the threads of a host that shares one shelf
Threads == {1, 2}

(* ------------------------------ ShelfTier ------------------------------ *)

ShelfTier == {"HOT", "WARM", "COLD", "PINNED", "SCRATCH"}

NoTier == "None"

\* eviction order that also reaches the HOT tier
EVICTION_ORDER_WithHot == <<"SCRATCH", "COLD", "WARM", "HOT">>

\* eviction order with the two cheapest tiers swapped
EVICTION_ORDER_ColdFirst == <<"COLD", "SCRATCH", "WARM">>

EVICTION_ORDER == <<"SCRATCH", "COLD", "WARM">>

EvictableTiers == {EVICTION_ORDER[i] : i \in 1..Len(EVICTION_ORDER)}

(* ------------------------------ helpers -------------------------------- *)

Max(a, b) == IF a >= b THEN a ELSE b

RECURSIVE SumOver(_, _)
SumOver(f, n) == IF n = 0 THEN 0 ELSE f[n] + SumOver(f, n - 1)

Ids(es) == {es[i].id : i \in 1..Len(es)}

\* the objects of a list, in order
IdSeq(es) == [i \in 1..Len(es) |-> es[i].id]

\* identity of a newly allocated object: distinct from every live entry
FreshId(es) == CHOOSE i \in 1..(Len(es) + 1) :
                  i \notin Ids(es) /\ \A j \in 1..(i - 1) : j \in Ids(es)

\* dataclass equality compares the fields, not the object identity
SameValue(a, b) == [a EXCEPT !.id = 0] = [b EXCEPT !.id = 0]

\* list.remove(x): index of the first element equal to x
FirstEqual(es, x) == CHOOSE i \in 1..Len(es) :
                        SameValue(es[i], x) /\ \A j \in 1..(i - 1) : ~SameValue(es[j], x)

RemoveAt(es, i) == SubSeq(es, 1, i - 1) \o SubSeq(es, i + 1, Len(es))

\* an estimate that rounds up
estimate_tokens_RoundUp(len) == Max(1, (len + 3) \div 4)

estimate_tokens(len) == Max(1, len \div 4)

used(es) == SumOver([i \in 1..Len(es) |-> es[i].token_count], Len(es))

\* remaining with the bound off by one
remainingOffByOne(es) == capacity - used(es) + 1

remaining(es) == capacity - used(es)

\* _can_evict that only looks for SCRATCH entries
can_evict_ScratchOnly(es) == \E i \in 1..Len(es) : es[i].tier = "SCRATCH"

can_evict(es) == \E i \in 1..Len(es) : es[i].tier \in EvictableTiers

\* victim choice that takes the most recently accessed entry
MaxByLastAccessed(c) ==
    c[CHOOSE i \in 1..Len(c) :
        \A j \in 1..Len(c) : c[i].last_accessed >= c[j].last_accessed]

\* victim choice that takes the oldest insertion instead of the oldest access
FirstCandidate(c) == c[1]

\* min(candidates, key=last_accessed): the first entry with the least key
MinByLastAccessed(c) ==
    c[CHOOSE i \in 1..Len(c) :
        /\ \A j \in 1..Len(c) : c[i].last_accessed <= c[j].last_accessed
        /\ \A j \in 1..(i - 1) : c[j].last_accessed > c[i].last_accessed]

TierCandidates(es, tier) == SelectSeq(es, LAMBDA e : e.tier = tier)

\* victim choice that takes the least recently accessed entry of any tier
EvictIndex_AnyTier(es) == FirstEqual(es, MinByLastAccessed(es))

\* index in es of the entry _evict_one removes (es holds an evictable entry)
EvictIndex(es) ==
    LET k == CHOOSE k \in 1..Len(EVICTION_ORDER) :
                 /\ TierCandidates(es, EVICTION_ORDER[k]) # <<>>
                 /\ \A j \in 1..(k - 1) : TierCandidates(es, EVICTION_ORDER[j]) = <<>>
        victim == MinByLastAccessed(TierCandidates(es, EVICTION_ORDER[k]))
    IN  FirstEqual(es, victim)

evict_one(es) == RemoveAt(es, EvictIndex(es))

\* eviction loop that does not stop when the content fits
RECURSIVE EvictLoopGreedy(_, _, _)
EvictLoopGreedy(es, ev, token_count) ==
    IF can_evict(es)
    THEN EvictLoopGreedy(evict_one(es), Append(ev, es[EvictIndex(es)]), token_count)
    ELSE [entries |-> es, evicted |-> ev]

\* the eviction loop of store: result entries and the victims in order
RECURSIVE EvictLoop(_, _, _)
EvictLoop(es, ev, token_count) ==
    IF remaining(es) < token_count /\ can_evict(es)
    THEN EvictLoop(evict_one(es), Append(ev, es[EvictIndex(es)]), token_count)
    ELSE [entries |-> es, evicted |-> ev]

ShelfEntry(id, content, tier, source, token_count, tags, created, accessed) ==
    [id |-> id, content |-> content, tier |-> tier, source |-> source,
     token_count |-> token_count, tags |-> tags, created_at |-> created,
     last_accessed |-> accessed, access_count |-> 0]

\* touch that refreshes last_accessed without counting the access
touchNoCount(e, t) == [e EXCEPT !.last_accessed = t]

\* ShelfEntry.touch at clock reading t
touch(e, t) == [e EXCEPT !.last_accessed = t, !.access_count = @ + 1]

\* tag match that is satisfied by any one pair of the filter
TagsMatchAny(e, tag_filter) == \E p \in tag_filter : p \in e.tags

\* all(e.tags.get(k) == v for k, v in tag_filter.items())
TagsMatch(e, tag_filter) == \A p \in tag_filter : p \in e.tags

\* the two filter passes of retrieve
RetrieveMatches(e, tier, tag_filter) ==
    /\ (tier # NoTier => e.tier = tier)
    /\ (tag_filter # {} => TagsMatch(e, tag_filter))

MatchedIndexes(es, tier, tag_filter) ==
    {i \in 1..Len(es) : RetrieveMatches(es[i], tier, tag_filter)}

\* number of matched entries at positions 1..i
Rank(es, tier, tag_filter, i) ==
    Cardinality({j \in MatchedIndexes(es, tier, tag_filter) : j <= i})

\* a thread that is in no store call
Idle == [pc |-> "idle"]

\* the call record: operation, arguments, outcome
Call(op, ok, content, tier, tag_filter, token_count, evicted, returned, freed) ==
    [op |-> op, ok |-> ok, content |-> content, tier |-> tier,
     tag_filter |-> tag_filter, token_count |-> token_count,
     evicted |-> evicted, returned |-> returned, freed |-> freed]

\* retrievedAfter holds <<a, b>> when a and b were on the shelf at the start
\* of the latest call, a retrieve returned a after the last access to b and
\* did not return b.  Live(rel, es) drops the pairs of objects that left.
Live(rel, es) == {p \in rel : p[1] \in Ids(es) /\ p[2] \in Ids(es)}

(* ------------------------------ strings -------------------------------- *)

\* the characters of the strings the model looks into
Chars(str) ==
    CASE str = "auth.py" -> <<"a", "u", "t", "h", ".", "p", "y">>
      [] str = "cfg.yaml" -> <<"c", "f", "g", ".", "y", "a", "m", "l">>
      [] str = "Tests.md" -> <<"T", "e", "s", "t", "s", ".", "m", "d">>
      [] str = "user" -> <<"u", "s", "e", "r">>
      [] str = "grep" -> <<"g", "r", "e", "p">>
      [] str = "go.sum" -> <<"g", "o", ".", "s", "u", "m">>
      [] str = "README" -> <<"R", "E", "A", "D", "M", "E">>
      [] str = "a" -> <<"a">>
      [] str = "" -> <<>>
      [] str = "abc" -> <<"a", "b", "c">>
      [] str = "abcdefg" -> <<"a", "b", "c", "d", "e", "f", "g">>
      [] str = "an Error" -> <<"a", "n", " ", "E", "r", "r", "o", "r">>
      [] str = "def f(x)" -> <<"d", "e", "f", " ", "f", "(", "x", ")">>
      [] str = "TODO: fix" -> <<"T", "O", "D", "O", ":", " ", "f", "i", "x">>
      [] str = "import failed" -> <<"i", "m", "p", "o", "r", "t", " ", "f", "a", "i", "l", "e", "d">>
      [] str = ".py" -> <<".", "p", "y">>
      [] str = ".ts" -> <<".", "t", "s">>
      [] str = ".js" -> <<".", "j", "s">>
      [] str = ".rs" -> <<".", "r", "s">>
      [] str = ".go" -> <<".", "g", "o">>
      [] str = ".json" -> <<".", "j", "s", "o", "n">>
      [] str = ".yaml" -> <<".", "y", "a", "m", "l">>
      [] str = ".yml" -> <<".", "y", "m", "l">>
      [] str = ".toml" -> <<".", "t", "o", "m", "l">>
      [] str = ".env" -> <<".", "e", "n", "v">>
      [] str = ".lock" -> <<".", "l", "o", "c", "k">>
      [] str = ".sum" -> <<".", "s", "u", "m">>
      [] str = "test" -> <<"t", "e", "s", "t">>
      [] str = "spec" -> <<"s", "p", "e", "c">>
      [] str = "error" -> <<"e", "r", "r", "o", "r">>
      [] str = "fail" -> <<"f", "a", "i", "l">>
      [] str = "assert" -> <<"a", "s", "s", "e", "r", "t">>
      [] str = "import" -> <<"i", "m", "p", "o", "r", "t">>
      [] str = "def " -> <<"d", "e", "f", " ">>
      [] str = "class " -> <<"c", "l", "a", "s", "s", " ">>
      [] str = "todo" -> <<"t", "o", "d", "o">>
      [] str = "fixme" -> <<"f", "i", "x", "m", "e">>
      [] str = "assert f(x)" -> <<"a", "s", "s", "e", "r", "t", " ", "f", "(", "x", ")">>
      [] str = "fix bug" -> <<"f", "i", "x", " ", "b", "u", "g">>
      [] str = "what is this?" -> <<"w", "h", "a", "t", " ", "i", "s", " ", "t", "h", "i", "s", "?">>
      [] str = "hello" -> <<"h", "e", "l", "l", "o">>
      [] str = "fix" -> <<"f", "i", "x">>
      [] str = "bug" -> <<"b", "u", "g">>
      [] str = "broken" -> <<"b", "r", "o", "k", "e", "n">>
      [] str = "crash" -> <<"c", "r", "a", "s", "h">>
      [] str = "wrong" -> <<"w", "r", "o", "n", "g">>
      [] str = "add" -> <<"a", "d", "d">>
      [] str = "create" -> <<"c", "r", "e", "a", "t", "e">>
      [] str = "new" -> <<"n", "e", "w">>
      [] str = "implement" -> <<"i", "m", "p", "l", "e", "m", "e", "n", "t">>
      [] str = "build" -> <<"b", "u", "i", "l", "d">>
      [] str = "feature" -> <<"f", "e", "a", "t", "u", "r", "e">>
      [] str = "refactor" -> <<"r", "e", "f", "a", "c", "t", "o", "r">>
      [] str = "clean" -> <<"c", "l", "e", "a", "n">>
      [] str = "reorganize" -> <<"r", "e", "o", "r", "g", "a", "n", "i", "z", "e">>
      [] str = "extract" -> <<"e", "x", "t", "r", "a", "c", "t">>
      [] str = "rename" -> <<"r", "e", "n", "a", "m", "e">>
      [] str = "move" -> <<"m", "o", "v", "e">>
      [] str = "what" -> <<"w", "h", "a", "t">>
      [] str = "how" -> <<"h", "o", "w">>
      [] str = "why" -> <<"w", "h", "y">>
      [] str = "where" -> <<"w", "h", "e", "r", "e">>
      [] str = "explain" -> <<"e", "x", "p", "l", "a", "i", "n">>
      [] str = "?" -> <<"?">>
      [] str = "does" -> <<"d", "o", "e", "s">>
      [] str = "config" -> <<"c", "o", "n", "f", "i", "g">>
      [] str = "setup" -> <<"s", "e", "t", "u", "p">>
      [] str = "install" -> <<"i", "n", "s", "t", "a", "l", "l">>
      [] str = "deploy" -> <<"d", "e", "p", "l", "o", "y">>
      [] str = "env" -> <<"e", "n", "v">>
      [] str = "ci" -> <<"c", "i">>
      [] str = "question" -> <<"q", "u", "e", "s", "t", "i", "o", "n">>
      [] str = "unknown" -> <<"u", "n", "k", "n", "o", "w", "n">>
      [] str = "all" -> <<"a", "l", "l">>
      [] str = "every" -> <<"e", "v", "e", "r", "y">>
      [] str = "across" -> <<"a", "c", "r", "o", "s", "s">>
      [] str = "entire" -> <<"e", "n", "t", "i", "r", "e">>
      [] str = "project" -> <<"p", "r", "o", "j", "e", "c", "t">>
      [] str = "module" -> <<"m", "o", "d", "u", "l", "e">>
      [] str = "package" -> <<"p", "a", "c", "k", "a", "g", "e">>
      [] str = "directory" -> <<"d", "i", "r", "e", "c", "t", "o", "r", "y">>
      [] str = "folder" -> <<"f", "o", "l", "d", "e", "r">>
      [] str = "cross-cutting" -> <<"c", "r", "o", "s", "s", "-", "c", "u", "t", "t", "i", "n", "g">>
      [] str = "single-file" -> <<"s", "i", "n", "g", "l", "e", "-", "f", "i", "l", "e">>
      [] str = "require" -> <<"r", "e", "q", "u", "i", "r", "e">>
      [] str = "(" -> <<"(">>
      [] str = "raise" -> <<"r", "a", "i", "s", "e">>
      [] str = "throw" -> <<"t", "h", "r", "o", "w">>
      [] str = "snake_case" -> <<"s", "n", "a", "k", "e", "_", "c", "a", "s", "e">>
      [] str = "_" -> <<"_">>
      [] str = "camelCase" -> <<"c", "a", "m", "e", "l", "C", "a", "s", "e">>
      [] str = "\"\"\"" -> <<"\"", "\"", "\"">>
      [] str = "try" -> <<"t", "r", "y">>
      [] str = "except" -> <<"e", "x", "c", "e", "p", "t">>
      [] str = "catch" -> <<"c", "a", "t", "c", "h">>
      [] str = "TODO" -> <<"T", "O", "D", "O">>
      [] str = "FIXME" -> <<"F", "I", "X", "M", "E">>
      [] str = "HACK" -> <<"H", "A", "C", "K">>
      [] str = "call" -> <<"c", "a", "l", "l">>
      [] str = "reproduce" -> <<"r", "e", "p", "r", "o", "d", "u", "c", "e">>
      [] str = "isolate" -> <<"i", "s", "o", "l", "a", "t", "e">>
      [] str = "verify" -> <<"v", "e", "r", "i", "f", "y">>
      [] str = "scaffold" -> <<"s", "c", "a", "f", "f", "o", "l", "d">>
      [] str = "integrate" -> <<"i", "n", "t", "e", "g", "r", "a", "t", "e">>
      [] str = "identify_pattern" -> <<"i", "d", "e", "n", "t", "i", "f", "y", "_", "p", "a", "t", "t", "e", "r", "n">>
      [] str = "replace_usages" -> <<"r", "e", "p", "l", "a", "c", "e", "_", "u", "s", "a", "g", "e", "s">>
      [] str = "gather" -> <<"g", "a", "t", "h", "e", "r">>
      [] str = "analyze" -> <<"a", "n", "a", "l", "y", "z", "e">>
      [] str = "respond" -> <<"r", "e", "s", "p", "o", "n", "d">>
      [] str = "run existing tests" -> <<"r", "u", "n", " ", "e", "x", "i", "s", "t", "i", "n", "g", " ", "t", "e", "s", "t", "s">>
      [] str = "confirm bug is reproduced first" -> <<"c", "o", "n", "f", "i", "r", "m", " ", "b", "u", "g", " ", "i", "s", " ", "r", "e", "p", "r", "o", "d", "u", "c", "e", "d", " ", "f", "i", "r", "s", "t">>
      [] str = "confirm bug no longer reproduces" -> <<"c", "o", "n", "f", "i", "r", "m", " ", "b", "u", "g", " ", "n", "o", " ", "l", "o", "n", "g", "e", "r", " ", "r", "e", "p", "r", "o", "d", "u", "c", "e", "s">>
      [] str = "test new functionality" -> <<"t", "e", "s", "t", " ", "n", "e", "w", " ", "f", "u", "n", "c", "t", "i", "o", "n", "a", "l", "i", "t", "y">>
      [] str = "done" -> <<"d", "o", "n", "e">>
      [] str = "Timeout" -> <<"T", "i", "m", "e", "o", "u", "t">>
      [] str = "x" -> <<"x">>
      [] str = "failed" -> <<"f", "a", "i", "l", "e", "d">>
      [] str = "exception" -> <<"e", "x", "c", "e", "p", "t", "i", "o", "n">>
      [] str = "timeout" -> <<"t", "i", "m", "e", "o", "u", "t">>
      [] str = "not found" -> <<"n", "o", "t", " ", "f", "o", "u", "n", "d">>
      [] str = "permission denied" -> <<"p", "e", "r", "m", "i", "s", "s", "i", "o", "n", " ", "d", "e", "n", "i", "e", "d">>
      [] str = "abort" -> <<"a", "b", "o", "r", "t">>
      [] str = "path not chosen" -> <<"p", "a", "t", "h", " ", "n", "o", "t", " ", "c", "h", "o", "s", "e", "n">>
      [] str = "node was never activated" -> <<"n", "o", "d", "e", " ", "w", "a", "s", " ", "n", "e", "v", "e", "r", " ", "a", "c", "t", "i", "v", "a", "t", "e", "d">>
      [] str = "completed with empty result" -> <<"c", "o", "m", "p", "l", "e", "t", "e", "d", " ", "w", "i", "t", "h", " ", "e", "m", "p", "t", "y", " ", "r", "e", "s", "u", "l", "t">>
      [] str = "result contains 'error'" -> <<"r", "e", "s", "u", "l", "t", " ", "c", "o", "n", "t", "a", "i", "n", "s", " ", "'", "e", "r", "r", "o", "r", "'">>
      [] str = "result contains 'failed'" -> <<"r", "e", "s", "u", "l", "t", " ", "c", "o", "n", "t", "a", "i", "n", "s", " ", "'", "f", "a", "i", "l", "e", "d", "'">>
      [] str = "result contains 'exception'" -> <<"r", "e", "s", "u", "l", "t", " ", "c", "o", "n", "t", "a", "i", "n", "s", " ", "'", "e", "x", "c", "e", "p", "t", "i", "o", "n", "'">>
      [] str = "result contains 'timeout'" -> <<"r", "e", "s", "u", "l", "t", " ", "c", "o", "n", "t", "a", "i", "n", "s", " ", "'", "t", "i", "m", "e", "o", "u", "t", "'">>
      [] str = "result contains 'not found'" -> <<"r", "e", "s", "u", "l", "t", " ", "c", "o", "n", "t", "a", "i", "n", "s", " ", "'", "n", "o", "t", " ", "f", "o", "u", "n", "d", "'">>
      [] str = "result contains 'permission denied'" -> <<"r", "e", "s", "u", "l", "t", " ", "c", "o", "n", "t", "a", "i", "n", "s", " ", "'", "p", "e", "r", "m", "i", "s", "s", "i", "o", "n", " ", "d", "e", "n", "i", "e", "d", "'">>
      [] str = "result contains 'abort'" -> <<"r", "e", "s", "u", "l", "t", " ", "c", "o", "n", "t", "a", "i", "n", "s", " ", "'", "a", "b", "o", "r", "t", "'">>
      [] str = "idea" -> <<"i", "d", "e", "a">>
      [] str = "shelf" -> <<"s", "h", "e", "l", "f">>
      [] str = "tool" -> <<"t", "o", "o", "l">>
      [] str = "collab" -> <<"c", "o", "l", "l", "a", "b">>
      [] str = "ABCDEFGHIJKLMNOPQRSTUVWXYZ" -> <<"A", "B", "C", "D", "E", "F", "G", "H", "I", "J", "K", "L", "M", "N", "O", "P", "Q", "R", "S", "T", "U", "V", "W", "X", "Y", "Z">>
      [] str = "abcdefghijklmnopqrstuvwxyz" -> <<"a", "b", "c", "d", "e", "f", "g", "h", "i", "j", "k", "l", "m", "n", "o", "p", "q", "r", "s", "t", "u", "v", "w", "x", "y", "z">>

UpperCase == Chars("ABCDEFGHIJKLMNOPQRSTUVWXYZ")

LowerCase == Chars("abcdefghijklmnopqrstuvwxyz")

\* str.lower, character by character
Lower(chars) ==
    LET lower == [i \in 1..Len(chars) |->
                    IF \E k \in 1..Len(UpperCase) : UpperCase[k] = chars[i]
                    THEN LowerCase[CHOOSE k \in 1..Len(UpperCase) : UpperCase[k] = chars[i]]
                    ELSE chars[i]]
    IN  SubSeq(lower, 1, Len(chars))

\* str.endswith with a tuple of suffixes
EndsWith(chars, suffixes) ==
    \E x \in suffixes :
        /\ Len(Chars(x)) <= Len(chars)
        /\ SubSeq(chars, Len(chars) - Len(Chars(x)) + 1, Len(chars)) = Chars(x)

\* the substring test, x in chars
Contains(chars, x) ==
    \E i \in 1..(Len(chars) - Len(Chars(x)) + 1) :
        SubSeq(chars, i, i + Len(Chars(x)) - 1) = Chars(x)

(* ------------------------------ RetrievalIndex ------------------------- *)

Tag(type, relevance, volatility, scope, trust) ==
    [type |-> type, relevance |-> relevance, volatility |-> volatility,
     scope |-> scope, trust |-> trust]

\* a TokenChunk object; its id is its identity, the place it takes in chunks
TokenChunk(id, content, source, token_count, tag, metadata) ==
    [id |-> id, content |-> content, source |-> source,
     token_count |-> token_count, tag |-> tag, metadata |-> metadata]

\* index that skips a chunk equal to one already indexed
index_Dedup(cs, chunk) ==
    IF \E i \in 1..Len(cs) : SameValue(cs[i], chunk) THEN cs ELSE Append(cs, chunk)

\* index that re-tags the chunks already indexed under the same source
index_Retag(cs, chunk) ==
    Append([i \in 1..Len(cs) |->
               IF cs[i].source = chunk.source THEN [cs[i] EXCEPT !.tag = chunk.tag]
               ELSE cs[i]],
           chunk)

\* RetrievalIndex.index
index(cs, chunk) == Append(cs, chunk)

\* one "is not None" filter pass of query
FilterPass(cs, dim, value) ==
    IF value # "None" THEN SelectSeq(cs, LAMBDA c : c.tag[dim] = value) ELSE cs

\* query that keeps a chunk as soon as one given dimension matches
QueryResultAny(cs, type, relevance, volatility, scope, trust) ==
    IF {type, relevance, volatility, scope, trust} = {"None"} THEN cs
    ELSE SelectSeq(cs, LAMBDA c :
            \/ c.tag.type = type
            \/ c.tag.relevance = relevance
            \/ c.tag.volatility = volatility
            \/ c.tag.scope = scope
            \/ c.tag.trust = trust)

\* the five filter passes of query, in the order of the code
QueryResult(cs, type, relevance, volatility, scope, trust) ==
    FilterPass(FilterPass(FilterPass(FilterPass(FilterPass(cs,
        "type", type), "relevance", relevance), "volatility", volatility),
        "scope", scope), "trust", trust)

\* query returns self.chunks itself when every filter is None
ReturnsChunksList(type, relevance, volatility, scope, trust) ==
    {type, relevance, volatility, scope, trust} = {"None"}

\* stale that asks for both conditions
StaleResultBoth(cs) ==
    SelectSeq(cs, LAMBDA c : c.tag.trust = "stale" /\ c.tag.volatility = "stale-risk")

\* the list comprehension of stale
StaleResult(cs) ==
    SelectSeq(cs, LAMBDA c : c.tag.trust = "stale" \/ c.tag.volatility = "stale-risk")

\* by_source that stops at the first chunk of the source
BySourceResultFirst(cs, source) ==
    LET all == SelectSeq(cs, LAMBDA c : c.source = source)
    IN  IF all = <<>> THEN <<>> ELSE <<all[1]>>

\* the list comprehension of by_source
BySourceResult(cs, source) == SelectSeq(cs, LAMBDA c : c.source = source)

\* the index call record: operation, arguments, ids of the returned chunks
ICall(op, args, returned) == [op |-> op, args |-> args, returned |-> returned]

Index(content, source, token_count, tag, metadata) ==
    LET chunk == TokenChunk(Len(chunks) + 1, content, source, token_count, tag, metadata)
    IN  /\ chunks' = index(chunks, chunk)
        /\ ilast' = ICall("index", <<content, source, token_count, tag, metadata>>, <<>>)
        /\ UNCHANGED iheld

IndexRaw(content, source, type, relevance, volatility, scope, trust) ==
    LET chunk == TokenChunk(Len(chunks) + 1, content, source, Max(1, content \div 4),
                            Tag(type, relevance, volatility, scope, trust), {})
    IN  /\ chunks' = index(chunks, chunk)
        /\ ilast' = ICall("index_raw",
                          <<content, source, type, relevance, volatility, scope, trust>>,
                          <<chunk.id>>)
        /\ UNCHANGED iheld

Query(type, relevance, volatility, scope, trust) ==
    LET results == QueryResult(chunks, type, relevance, volatility, scope, trust)
    IN  /\ ilast' = ICall("query", <<type, relevance, volatility, scope, trust>>,
                          IdSeq(results))
        /\ iheld' = [alias |-> ReturnsChunksList(type, relevance, volatility, scope, trust),
                     returned |-> IdSeq(results)]
        /\ UNCHANGED chunks

Critical ==
    LET results == QueryResult(chunks, "None", "critical", "None", "None", "None")
    IN  /\ ilast' = ICall("critical", <<>>, IdSeq(results))
        /\ iheld' = [alias |-> FALSE, returned |-> IdSeq(results)]
        /\ UNCHANGED chunks

Stale ==
    LET results == StaleResult(chunks)
    IN  /\ ilast' = ICall("stale", <<>>, IdSeq(results))
        /\ iheld' = [alias |-> FALSE, returned |-> IdSeq(results)]
        /\ UNCHANGED chunks

BySource(source) ==
    LET results == BySourceResult(chunks, source)
    IN  /\ ilast' = ICall("by_source", <<source>>, IdSeq(results))
        /\ iheld' = [alias |-> FALSE, returned |-> IdSeq(results)]
        /\ UNCHANGED chunks

\* count_by that counts the chunks instead of adding their sizes
RECURSIVE count_by_Chunks(_, _)
count_by_Chunks(cs, attr) ==
    IF cs = <<>> THEN <<>>
    ELSE LET counts == count_by_Chunks(SubSeq(cs, 1, Len(cs) - 1), attr)
             chunk == cs[Len(cs)]
             key == chunk.tag[attr]
         IN  [k \in DOMAIN counts \cup {key} |->
                 IF k = key
                 THEN (IF key \in DOMAIN counts THEN counts[key] ELSE 0) + 1
                 ELSE counts[k]]

\* the loop of count_by: counts[key] = counts.get(key, 0) + chunk.token_count
RECURSIVE count_by(_, _)
count_by(cs, attr) ==
    IF cs = <<>> THEN <<>>
    ELSE LET counts == count_by(SubSeq(cs, 1, Len(cs) - 1), attr)
             chunk == cs[Len(cs)]
             key == chunk.tag[attr]
         IN  [k \in DOMAIN counts \cup {key} |->
                 IF k = key
                 THEN (IF key \in DOMAIN counts THEN counts[key] ELSE 0) + chunk.token_count
                 ELSE counts[k]]

\* RetrievalIndex.total_tokens
total_tokens(cs) == SumOver([i \in 1..Len(cs) |-> cs[i].token_count], Len(cs))

Summary ==
    /\ ilast' = ICall("summary", <<>>,
                      [total_chunks |-> Len(chunks),
                       total_tokens |-> total_tokens(chunks),
                       by_type |-> count_by(chunks, "type"),
                       by_relevance |-> count_by(chunks, "relevance"),
                       by_volatility |-> count_by(chunks, "volatility"),
                       by_scope |-> count_by(chunks, "scope"),
                       by_trust |-> count_by(chunks, "trust")])
    /\ UNCHANGED <<chunks, iheld>>

\* the heuristic tagger: the first branch that applies, dimension by dimension
auto_tag(content, source) ==
    LET src == Chars(source)
        lower == Lower(Chars(content))
        type == IF EndsWith(src, {".py", ".ts", ".js", ".rs", ".go"}) THEN "source-code"
                ELSE IF EndsWith(src, {".json", ".yaml", ".yml", ".toml", ".env"}) THEN "config"
                ELSE IF Contains(Lower(src), "test") \/ Contains(Lower(src), "spec") THEN "test"
                ELSE IF source = "user" THEN "user-intent"
                ELSE "tool-result"
        relevance ==
                IF Contains(lower, "error") \/ Contains(lower, "fail") \/ Contains(lower, "assert")
                THEN "critical"
                ELSE IF Contains(lower, "import") \/ Contains(lower, "def ") \/ Contains(lower, "class ")
                THEN "useful"
                ELSE IF Contains(lower, "todo") \/ Contains(lower, "fixme") THEN "useful"
                ELSE "ambient"
        volatility ==
                IF EndsWith(src, {".lock", ".sum"}) THEN "static"
                ELSE IF Contains(Lower(src), "test") THEN "live"
                ELSE "stale-risk"
    IN  Tag(type, relevance, volatility, "this-file", "verified")

AutoTag(content, source) ==
    /\ ilast' = ICall("auto_tag", <<content, source>>, auto_tag(content, source))
    /\ UNCHANGED <<chunks, iheld>>

(* ------------------------------ engine state --------------------------- *)

\* Layer.name of the five layers, in the order of WorkflowEngine.layers
LayerNames == <<"orient", "acquire", "comprehend", "strategize", "execute">>

\* the latest call of the orchestrator: `at` is the number of the call,
\* `shelf_calls` the calls it made on the shelf, in order, `raised` whether
\* it ended by an exception
ECall(op, at, args, raised, shelf_calls, returned) ==
    [op |-> op, at |-> at, args |-> args, raised |-> raised,
     shelf_calls |-> shelf_calls, returned |-> returned]

\* WorkflowEngine.__init__ with the two limits of EngineConfig; the shelf
\* capacity of the config is `capacity`.  context holds the keys a layer
\* or the engine reads; current_layer_idx, total_iterations and task_type
\* are the locals of run, pc its position, `runs` the number of run calls
\* and run_start the length of history when the latest one began
WorkflowEngine(max_total_iterations, max_layer_retries) ==
    [pc |-> "idle",
     max_total_iterations |-> max_total_iterations,
     max_layer_retries |-> max_layer_retries,
     context |-> [user_request |-> "", task_type |-> "unknown", unknowns |-> 0,
                  mental_model |-> [built |-> FALSE, data_flow |-> {},
                                    invariants |-> {}],
                  steps |-> <<>>, verification |-> <<>>,
                  aborted_at |-> "", abort_reason |-> <<>>],
     history |-> <<>>,
     failure_counts |-> [i \in 1..Len(LayerNames) |-> 0],
     task_type |-> "UNKNOWN", current_layer_idx |-> 0, total_iterations |-> 0,
     runs |-> 0, run_start |-> 0,
     last |-> ECall("init", 0, <<>>, FALSE, <<>>, 0)]

(* ------------------------------ cycle and boot state ------------------- *)

\* TurnCycle.__init__.  nodes holds the Node objects in the order of their
\* creation; rows, extensions and carried_nodes refer to them by place
TurnCycle ==
    [nodes |-> <<>>, turns |-> <<>>, cycle_count |-> 0, carried_nodes |-> <<>>,
     history |-> <<>>,
     last |-> [op |-> "init", args |-> <<>>, returned |-> <<>>]]

\* scores are counted in units of 1/Scale; up to MaxHours hours go by, and
\* Scale is a multiple of 2 * (1 + age) for every age up to there
Scale == 600

MaxHours == 5

\* a RunLog and the BootLoader on it, with the shelf attached: entries are
\* the entries of the log, time the clock in hours
BootLoader ==
    [entries |-> <<>>, shelf |-> TRUE, time |-> 0,
     last |-> [op |-> "init", raised |-> FALSE, returned |-> <<>>]]

(* ------------------------------ Init ----------------------------------- *)

Init ==
    /\ capacity \in Capacities
    /\ entries = <<>>
    /\ now = 0
    /\ tick \in Ticks
    /\ last = Call("init", TRUE, 0, NoTier, {}, 0, <<>>, <<>>, 0)
    /\ retrievedAfter = {}
    /\ calls = 0
    /\ held = [alias |-> FALSE, returned |-> <<>>]
    /\ chunks = <<>>
    /\ ilast = ICall("init", <<>>, <<>>)
    /\ iheld = [alias |-> FALSE, returned |-> <<>>]
    /\ acquired = <<>>
    /\ threads = [t \in Threads |-> Idle]
    /\ overlapped = FALSE
    /\ engine = WorkflowEngine(20, 3)
    /\ cycle = TurnCycle
    /\ boot = BootLoader

(* ------------------------------ store ---------------------------------- *)

\* store that leaves the shelf as it was when it raises
store_Rollback(es, content, tier, source, tags) ==
    LET token_count == estimate_tokens(content)
        r == EvictLoop(es, <<>>, token_count)
        entry == ShelfEntry(FreshId(es), content, tier, source, token_count,
                            tags, now + tick, now + 2 * tick)
    IN  IF remaining(r.entries) < token_count
        THEN [ok |-> FALSE, entries |-> es, evicted |-> <<>>,
              token_count |-> token_count, returned |-> <<>>, now |-> now]
        ELSE [ok |-> TRUE, entries |-> Append(r.entries, entry), evicted |-> r.evicted,
              token_count |-> token_count, returned |-> <<entry.id>>,
              now |-> now + 2 * tick]

\* store that evicts nothing to make room for a SCRATCH entry
store_ScratchEvictsNothing(es, content, tier, source, tags) ==
    LET token_count == estimate_tokens(content)
        r == IF tier = "SCRATCH" THEN [entries |-> es, evicted |-> <<>>]
             ELSE EvictLoop(es, <<>>, token_count)
        entry == ShelfEntry(FreshId(es), content, tier, source, token_count,
                            tags, now + tick, now + 2 * tick)
    IN  IF remaining(r.entries) < token_count
        THEN [ok |-> FALSE, entries |-> r.entries, evicted |-> r.evicted,
              token_count |-> token_count, returned |-> <<>>, now |-> now]
        ELSE [ok |-> TRUE, entries |-> Append(r.entries, entry), evicted |-> r.evicted,
              token_count |-> token_count, returned |-> <<entry.id>>,
              now |-> now + 2 * tick]

\* the outcome of store on the shelf es: the eviction loop, the capacity
\* test, and the new entry, whose two timestamps are two clock readings
store(es, content, tier, source, tags) ==
    LET token_count == estimate_tokens(content)
        r == EvictLoop(es, <<>>, token_count)
        entry == ShelfEntry(FreshId(es), content, tier, source, token_count,
                            tags, now + tick, now + 2 * tick)
    IN  IF remaining(r.entries) < token_count
        THEN [ok |-> FALSE, entries |-> r.entries, evicted |-> r.evicted,
              token_count |-> token_count, returned |-> <<>>, now |-> now]
        ELSE [ok |-> TRUE, entries |-> Append(r.entries, entry), evicted |-> r.evicted,
              token_count |-> token_count, returned |-> <<entry.id>>,
              now |-> now + 2 * tick]

Store(content, tier, source, tags) ==
    LET r == store(entries, content, tier, source, tags)
    IN  /\ entries' = r.entries
        /\ now' = r.now
        /\ last' = Call("store", r.ok, content, tier, {}, r.token_count,
                        r.evicted, r.returned, 0)
        /\ retrievedAfter' = Live(retrievedAfter, entries)
        /\ UNCHANGED <<capacity, tick>>

(* ------------------------------ store without a lock ------------------- *)

\* first half of store that goes on to append without testing the capacity
StoreBeginUnchecked(t, content, tier, source, tags) ==
    LET token_count == estimate_tokens(content)
        r == EvictLoop(entries, <<>>, token_count)
    IN  /\ threads[t].pc = "idle"
        /\ entries' = r.entries
        /\ threads' = [threads EXCEPT ![t] =
                          [pc |-> "checked", content |-> content, tier |-> tier,
                           source |-> source, tags |-> tags,
                           token_count |-> token_count, evicted |-> r.evicted]]
        /\ UNCHANGED last
        /\ overlapped' = (overlapped \/ \E u \in Threads \ {t} : threads[u].pc = "checked")
        /\ retrievedAfter' = Live(retrievedAfter, entries)
        /\ UNCHANGED <<capacity, now, tick>>

\* thread t runs store up to the capacity test: the eviction loop, then
\* either the raise or the decision to append
StoreBegin(t, content, tier, source, tags) ==
    LET token_count == estimate_tokens(content)
        r == EvictLoop(entries, <<>>, token_count)
    IN  /\ threads[t].pc = "idle"
        /\ entries' = r.entries
        /\ IF remaining(r.entries) < token_count
           THEN /\ last' = Call("store", FALSE, content, tier, {}, token_count,
                                r.evicted, <<>>, 0)
                /\ UNCHANGED threads
           ELSE /\ threads' = [threads EXCEPT ![t] =
                                  [pc |-> "checked", content |-> content, tier |-> tier,
                                   source |-> source, tags |-> tags,
                                   token_count |-> token_count, evicted |-> r.evicted]]
                /\ UNCHANGED last
        /\ overlapped' = (overlapped \/ \E u \in Threads \ {t} : threads[u].pc = "checked")
        /\ retrievedAfter' = Live(retrievedAfter, entries)
        /\ UNCHANGED <<capacity, now, tick>>

\* thread t finishes store: it builds the entry and appends it
StoreAppend(t) ==
    LET c == threads[t]
        entry == ShelfEntry(FreshId(entries), c.content, c.tier, c.source,
                            c.token_count, c.tags, now + tick, now + 2 * tick)
    IN  /\ c.pc = "checked"
        /\ entries' = Append(entries, entry)
        /\ now' = now + 2 * tick
        /\ last' = Call("store", TRUE, c.content, c.tier, {}, c.token_count,
                        c.evicted, <<entry.id>>, 0)
        /\ threads' = [threads EXCEPT ![t] = Idle]
        /\ retrievedAfter' = Live(retrievedAfter, entries)
        /\ UNCHANGED <<capacity, tick, overlapped>>

(* ------------------------------ retrieve ------------------------------- *)

\* results = self.entries is returned as it is when neither filter applies
ReturnsEntriesList(tier, tag_filter) == tier = NoTier /\ tag_filter = {}

\* retrieve that touches every entry of the shelf, returned or not
RetrieveTouchingAll(tier, tag_filter) ==
    LET m == MatchedIndexes(entries, tier, tag_filter)
        final == now + tick * Len(entries)
        got == {entries[i].id : i \in m}
        rest == Ids(entries) \ got
    IN  /\ entries' = [i \in 1..Len(entries) |-> touch(entries[i], now + tick * i)]
        /\ now' = final
        /\ last' = Call("retrieve", TRUE, 0, tier, tag_filter, 0, <<>>,
                        [k \in 1..Cardinality(m) |->
                            LET i == CHOOSE i \in m : Rank(entries, tier, tag_filter, i) = k
                            IN  [id |-> entries[i].id,
                                 access_count |-> entries[i].access_count]],
                        0)
        /\ retrievedAfter' =
               {p \in Live(retrievedAfter, entries) : p[2] \notin got} \cup (got \X rest)
        /\ held' = [alias |-> ReturnsEntriesList(tier, tag_filter),
                    returned |-> [k \in 1..Cardinality(m) |-> last'.returned[k].id]]
        /\ UNCHANGED <<capacity, tick>>

\* the k-th touch makes the k-th clock reading of the call
Retrieve(tier, tag_filter) ==
    LET m == MatchedIndexes(entries, tier, tag_filter)
        at(i) == now + tick * Rank(entries, tier, tag_filter, i)
        final == now + tick * Cardinality(m)
        got == {entries[i].id : i \in m}
        rest == Ids(entries) \ got
    IN  /\ entries' = [i \in 1..Len(entries) |->
                          IF i \in m THEN touch(entries[i], at(i)) ELSE entries[i]]
        /\ now' = final
        /\ last' = Call("retrieve", TRUE, 0, tier, tag_filter, 0, <<>>,
                        [k \in 1..Cardinality(m) |->
                            LET i == CHOOSE i \in m : Rank(entries, tier, tag_filter, i) = k
                            IN  [id |-> entries[i].id,
                                 access_count |-> entries[i].access_count]],
                        0)
        /\ retrievedAfter' =
               {p \in Live(retrievedAfter, entries) : p[2] \notin got} \cup (got \X rest)
        /\ held' = [alias |-> ReturnsEntriesList(tier, tag_filter),
                    returned |-> [k \in 1..Cardinality(m) |-> last'.returned[k].id]]
        /\ UNCHANGED <<capacity, tick>>

(* ------------------------------ promote / demote ----------------------- *)

Promote(i, new_tier) ==
    /\ i \in 1..Len(entries)
    /\ entries' = [entries EXCEPT ![i] = touch([@ EXCEPT !.tier = new_tier], now + tick)]
    /\ now' = now + tick
    /\ last' = Call("promote", TRUE, 0, new_tier, {}, 0, <<>>, <<entries[i].id>>, 0)
    /\ retrievedAfter' = {p \in Live(retrievedAfter, entries) : p[2] # entries[i].id}
    /\ UNCHANGED <<capacity, tick>>

\* demote that counts as an access, as promote does
DemoteTouching(i, new_tier) ==
    /\ i \in 1..Len(entries)
    /\ entries' = [entries EXCEPT ![i] = touch([@ EXCEPT !.tier = new_tier], now + tick)]
    /\ now' = now + tick
    /\ last' = Call("demote", TRUE, 0, new_tier, {}, 0, <<>>, <<entries[i].id>>, 0)
    /\ retrievedAfter' = Live(retrievedAfter, entries)
    /\ UNCHANGED <<capacity, tick>>

Demote(i, new_tier) ==
    /\ i \in 1..Len(entries)
    /\ entries' = [entries EXCEPT ![i].tier = new_tier]
    /\ last' = Call("demote", TRUE, 0, new_tier, {}, 0, <<>>, <<entries[i].id>>, 0)
    /\ retrievedAfter' = Live(retrievedAfter, entries)
    /\ UNCHANGED <<capacity, now, tick>>

(* ------------------------------ compress ------------------------------- *)

PreviewLen == 200

\* len(f"[{e.source}]: {e.content[:200]}...") or len(f"[{e.source}]: {e.content}")
PieceLen(e) ==
    IF e.content > PreviewLen
    THEN Len(e.source) + 4 + PreviewLen + 3
    ELSE Len(e.source) + 4 + e.content

\* len("\n---\n".join(pieces))
CombinedLen(targets) ==
    SumOver([i \in 1..Len(targets) |-> PieceLen(targets[i])], Len(targets))
        + 5 * (Len(targets) - 1)

\* removal that stops after the first target
RemoveFirstOnly(es, targets, k) ==
    IF targets = <<>> THEN es ELSE RemoveAt(es, FirstEqual(es, targets[1]))

RECURSIVE RemoveAll(_, _, _)
RemoveAll(es, targets, k) ==
    IF k > Len(targets) THEN es
    ELSE RemoveAll(RemoveAt(es, FirstEqual(es, targets[k])), targets, k + 1)

\* len("[COMPRESSED SUMMARY]\n")
SummaryHeaderLen == 21

\* compress that never reports a negative number of freed tokens
CompressClamped(tier) ==
    LET targets == TierCandidates(entries, tier)
        original_tokens == used(targets)
        combined == CombinedLen(targets)
        kept == RemoveAll(entries, targets, 1)
        summary == ShelfEntry(FreshId(entries), SummaryHeaderLen + combined, tier,
                              "compression", estimate_tokens(combined), {},
                              now + tick, now + 2 * tick)
    IN  IF targets = <<>>
        THEN /\ last' = Call("compress", TRUE, 0, tier, {}, 0, <<>>, <<>>, 0)
             /\ retrievedAfter' = Live(retrievedAfter, entries)
             /\ UNCHANGED <<capacity, entries, now, tick>>
        ELSE /\ entries' = Append(kept, summary)
             /\ now' = now + 2 * tick
             /\ last' = Call("compress", TRUE, 0, tier, {}, summary.token_count,
                             <<>>, <<summary.id>>,
                             Max(0, original_tokens - summary.token_count))
             /\ retrievedAfter' = Live(retrievedAfter, entries)
             /\ UNCHANGED <<capacity, tick>>

\* compress that rewrites its first target into the summary
CompressInPlace(tier) ==
    LET targets == TierCandidates(entries, tier)
        original_tokens == used(targets)
        combined == CombinedLen(targets)
        kept == RemoveAll(entries, targets, 1)
        summary == ShelfEntry(IF targets = <<>> THEN 0 ELSE targets[1].id, SummaryHeaderLen + combined, tier,
                              "compression", estimate_tokens(combined), {},
                              now + tick, now + 2 * tick)
    IN  IF targets = <<>>
        THEN /\ last' = Call("compress", TRUE, 0, tier, {}, 0, <<>>, <<>>, 0)
             /\ retrievedAfter' = Live(retrievedAfter, entries)
             /\ UNCHANGED <<capacity, entries, now, tick>>
        ELSE /\ entries' = Append(kept, summary)
             /\ now' = now + 2 * tick
             /\ last' = Call("compress", TRUE, 0, tier, {}, summary.token_count,
                             <<>>, <<summary.id>>,
                             original_tokens - summary.token_count)
             /\ retrievedAfter' = Live(retrievedAfter, entries)
             /\ UNCHANGED <<capacity, tick>>

\* compress without the early return for an empty tier
CompressNoEmptyCheck(tier) ==
    LET targets == TierCandidates(entries, tier)
        original_tokens == used(targets)
        combined == CombinedLen(targets)
        kept == RemoveAll(entries, targets, 1)
        summary == ShelfEntry(FreshId(entries), SummaryHeaderLen + combined, tier,
                              "compression", estimate_tokens(combined), {},
                              now + tick, now + 2 * tick)
    IN  IF FALSE
        THEN /\ last' = Call("compress", TRUE, 0, tier, {}, 0, <<>>, <<>>, 0)
             /\ retrievedAfter' = Live(retrievedAfter, entries)
             /\ UNCHANGED <<capacity, entries, now, tick>>
        ELSE /\ entries' = Append(kept, summary)
             /\ now' = now + 2 * tick
             /\ last' = Call("compress", TRUE, 0, tier, {}, summary.token_count,
                             <<>>, <<summary.id>>,
                             original_tokens - summary.token_count)
             /\ retrievedAfter' = Live(retrievedAfter, entries)
             /\ UNCHANGED <<capacity, tick>>

Compress(tier) ==
    LET targets == TierCandidates(entries, tier)
        original_tokens == used(targets)
        combined == CombinedLen(targets)
        kept == RemoveAll(entries, targets, 1)
        summary == ShelfEntry(FreshId(entries), SummaryHeaderLen + combined, tier,
                              "compression", estimate_tokens(combined), {},
                              now + tick, now + 2 * tick)
    IN  IF targets = <<>>
        THEN /\ last' = Call("compress", TRUE, 0, tier, {}, 0, <<>>, <<>>, 0)
             /\ retrievedAfter' = Live(retrievedAfter, entries)
             /\ UNCHANGED <<capacity, entries, now, tick>>
        ELSE /\ entries' = Append(kept, summary)
             /\ now' = now + 2 * tick
             /\ last' = Call("compress", TRUE, 0, tier, {}, summary.token_count,
                             <<>>, <<summary.id>>,
                             original_tokens - summary.token_count)
             /\ retrievedAfter' = Live(retrievedAfter, entries)
             /\ UNCHANGED <<capacity, tick>>

(* ------------------------------ snapshot ------------------------------- *)

\* per-tier totals that add up entries instead of tokens
by_tier_CountAsTokens(es) ==
    [t \in ShelfTier |-> [count |-> Len(TierCandidates(es, t)),
                          tokens |-> Len(TierCandidates(es, t))]]

\* by_tier of snapshot: count and token total of each of the five tiers
by_tier(es) ==
    [t \in ShelfTier |-> [count |-> Len(TierCandidates(es, t)),
                          tokens |-> used(TierCandidates(es, t))]]

\* self.utilization in thousandths, the precision "{:.1%}" prints
utilization(es) ==
    IF capacity > 0 THEN (2000 * used(es) + capacity) \div (2 * capacity) ELSE 0

Snapshot ==
    /\ last' = Call("snapshot", TRUE, 0, NoTier, {}, 0, <<>>,
                    [capacity |-> capacity, used |-> used(entries),
                     remaining |-> remaining(entries),
                     utilization |-> utilization(entries),
                     tiers |-> by_tier(entries)],
                    0)
    /\ retrievedAfter' = Live(retrievedAfter, entries)
    /\ UNCHANGED <<capacity, entries, now, tick>>

(* ------------------------------ router --------------------------------- *)

\* number of the keywords that occur in the text
Score(chars, keywords) == Cardinality({w \in keywords : Contains(chars, w)})

\* max(scores, key=scores.get) of a dict given as a sequence of n pairs
\* <<key, keywords>>: the first key that has the largest score
RECURSIVE FirstBest(_, _, _)
FirstBest(chars, table, n) ==
    IF n = 1 THEN 1
    ELSE LET best == FirstBest(chars, table, n - 1)
         IN  IF Score(chars, table[n][2]) > Score(chars, table[best][2]) THEN n
             ELSE best

\* TaskRouter.classify
classify(request) ==
    LET lower == Lower(Chars(request))
        scores ==
            << <<"BUG", {"fix", "bug", "broken", "error", "crash", "fail", "wrong"}>>,
               <<"FEATURE", {"add", "create", "new", "implement", "build", "feature"}>>,
               <<"REFACTOR", {"refactor", "clean", "reorganize", "extract", "rename",
                              "move"}>>,
               <<"QUESTION", {"what", "how", "why", "where", "explain", "?", "does"}>>,
               <<"CONFIG", {"config", "setup", "install", "deploy", "env", "ci"}>> >>
        best == FirstBest(lower, scores, Len(scores))
    IN  IF Score(lower, scores[best][2]) > 0 THEN scores[best][1] ELSE "UNKNOWN"

\* the weights of orient, acquire, comprehend, strategize and execute for
\* each task type, in tenths
WEIGHT_PROFILES ==
    [BUG |-> <<4, 10, 8, 4, 6>>, FEATURE |-> <<8, 6, 6, 10, 10>>,
     REFACTOR |-> <<4, 10, 10, 8, 8>>, QUESTION |-> <<10, 8, 10, 0, 2>>,
     CONFIG |-> <<6, 6, 4, 6, 8>>, UNKNOWN |-> <<10, 8, 6, 4, 4>>]

\* TaskRouter.should_skip_layer with the default threshold 0.1
should_skip_layer(task_type, layer_index) ==
    (IF layer_index \in 1..5 THEN WEIGHT_PROFILES[task_type][layer_index] ELSE 0) < 1

\* recovery that sends a failed Comprehend on to Strategize
plan_recovery_Forward(failed_layer, failure_count) ==
    IF failed_layer = 3 THEN 4 ELSE 1

\* TaskRouter.plan_recovery: the fallback layer for a failed layer whose
\* count in context["failure_counts"] is failure_count
plan_recovery(failed_layer, failure_count) ==
    LET fallback_layer == CASE failed_layer = 1 -> 1
                            [] failed_layer = 2 -> 1
                            [] failed_layer = 3 -> 2
                            [] failed_layer = 4 -> 3
                            [] failed_layer = 5 -> 3
                            [] OTHER -> 1
    IN  IF failure_count > 1 THEN Max(1, fallback_layer - 1) ELSE fallback_layer

(* ------------------------------ layers --------------------------------- *)

\* the elements of a set, one after the other
SeqOf(S) == CHOOSE s \in [1..Cardinality(S) -> S] : \A x \in S : \E i \in DOMAIN s : s[i] = x

\* len(str(x)) of a list or dict x of n items whose str have the lengths lens
ReprLen(lens, n) == IF n = 0 THEN 2 ELSE 2 + SumOver(lens, n) + 2 * (n - 1)

\* len(str(x)) of a list of strings
ReprStrings(strs) == ReprLen([i \in 1..Len(strs) |-> Len(Chars(strs[i])) + 2], Len(strs))

\* len(str(x)) of the invariants of a mental model: the strings "<file> has
\* assertions that must hold" and "<file> has error contracts"
ReprInvariants(invariants) ==
    LET s == SeqOf(invariants)
    IN  ReprLen([i \in 1..Cardinality(invariants) |->
                    Len(Chars(s[i][1])) + (IF s[i][2] = "assertions" THEN 30 ELSE 20) + 2],
                Cardinality(invariants))

\* LayerResult, with the context after context.update(output) and the
\* length of str(output)
LayerResult(status, gaps, output, context, content) ==
    [status |-> status, gaps |-> gaps, output |-> output, context |-> context,
     content |-> content]

\* Orient.run.  The context never holds file_tree, target_files or
\* test_status, so the unknowns are always the same three
Orient(ctx) ==
    LET lower == Lower(Chars(ctx.user_request))
        keywords ==
            << <<"bug", {"fix", "bug", "broken", "error", "crash", "fail"}>>,
               <<"feature", {"add", "create", "new", "implement", "build"}>>,
               <<"refactor", {"refactor", "clean", "reorganize", "extract", "rename"}>>,
               <<"question", {"what", "how", "why", "where", "explain", "?"}>>,
               <<"config", {"config", "setup", "install", "deploy", "env"}>> >>
        best == FirstBest(lower, keywords, Len(keywords))
        task_type == IF Score(lower, keywords[best][2]) > 0 THEN keywords[best][1]
                     ELSE "unknown"
        scope == IF Score(lower, {"all", "every", "across", "entire", "project"}) > 0
                 THEN "cross-cutting"
                 ELSE IF Score(lower, {"module", "package", "directory", "folder"}) > 0
                 THEN "module"
                 ELSE "single-file"
    IN  IF ctx.user_request = ""
        THEN LayerResult("FAILED", <<"no user request provided">>, FALSE, ctx, 2)
        ELSE LayerResult("SATISFIED", <<>>, TRUE,
                         [ctx EXCEPT !.task_type = task_type, !.unknowns = 3],
                         111 + Len(Chars(task_type)) + Len(Chars(scope)))

\* Acquire.run: a plan of one action for each of the three unknowns
Acquire(ctx) ==
    IF ctx.unknowns = 0
    THEN LayerResult("SATISFIED", <<>>, FALSE, ctx, 2)
    ELSE LayerResult("SATISFIED", <<>>, TRUE, ctx, 259)

\* Comprehend.run over acquired_content; every content is one line with no
\* blank at either end
Comprehend(ctx, acq) ==
    LET In(f, words) == Score(Chars(acq[f]), words) > 0
        data_flow ==
            {<<f, "import">> : f \in {g \in DOMAIN acq : In(g, {"import", "require"})}}
            \cup {<<f, "call">> : f \in {g \in DOMAIN acq :
                                          /\ In(g, {"("})
                                          /\ ~In(g, {"def "})
                                          /\ ~In(g, {"class "})}}
        invariants ==
            {<<f, "assertions">> : f \in {g \in DOMAIN acq : In(g, {"assert"})}}
            \cup {<<f, "contracts">> : f \in {g \in DOMAIN acq : In(g, {"raise", "throw"})}}
        naming == IF \E f \in DOMAIN acq : In(f, {"camelCase"}) THEN <<21>>
                  ELSE IF \E f \in DOMAIN acq : In(f, {"snake_case", "_"}) THEN <<22>>
                  ELSE <<>>
        conventions == naming \o (IF \E f \in DOMAIN acq : In(f, {"\"\"\""})
                                  THEN <<28>> ELSE <<>>)
        failure_modes ==
            {<<f, 40>> : f \in {g \in DOMAIN acq : In(g, {"try", "except", "catch"})}}
            \cup {<<f, 23>> : f \in {g \in DOMAIN acq : In(g, {"TODO", "FIXME", "HACK"})}}
        flows == SeqOf(data_flow)
        modes == SeqOf(failure_modes)
        gaps == (IF data_flow = {} THEN <<"could not determine data_flow">> ELSE <<>>)
                \o (IF invariants = {} THEN <<"could not determine invariants">>
                    ELSE <<>>)
        content ==
            85 + ReprLen([i \in 1..Cardinality(data_flow) |->
                             46 + Len(Chars(flows[i][1])) + Len(Chars(flows[i][2]))
                                + Len(Chars(acq[flows[i][1]]))],
                         Cardinality(data_flow))
               + ReprInvariants(invariants)
               + ReprLen(conventions, Len(conventions))
               + ReprLen([i \in 1..Cardinality(failure_modes) |->
                             Len(Chars(modes[i][1])) + modes[i][2] + 2],
                         Cardinality(failure_modes))
    IN  IF DOMAIN acq = {}
        THEN LayerResult("FAILED", <<"no content acquired yet">>, FALSE, ctx, 2)
        ELSE LayerResult(IF gaps = <<>> THEN "SATISFIED" ELSE "FAILED", gaps, TRUE,
                         [ctx EXCEPT !.mental_model =
                             [built |-> TRUE, data_flow |-> data_flow,
                              invariants |-> invariants]],
                         content)

\* Strategize.run
Strategize(ctx) ==
    LET task_type == ctx.task_type
        steps == CASE task_type = "bug" -> <<"reproduce", "isolate", "fix", "verify">>
                   [] task_type = "feature" ->
                          <<"scaffold", "implement", "integrate", "verify">>
                   [] task_type = "refactor" ->
                          <<"identify_pattern", "extract", "replace_usages", "verify">>
                   [] task_type = "question" -> <<"gather", "analyze", "respond">>
                   [] OTHER -> <<"analyze", "implement", "verify">>
        verification ==
            CASE task_type = "bug" -> <<"confirm bug is reproduced first",
                                        "run existing tests",
                                        "confirm bug no longer reproduces">>
              [] task_type = "feature" -> <<"run existing tests",
                                            "test new functionality">>
              [] OTHER -> <<"run existing tests">>
        risks == IF ctx.mental_model.invariants = {} THEN <<>>
                 ELSE <<109 + ReprInvariants(ctx.mental_model.invariants)>>
        content ==
            54 + ReprLen([i \in 1..Len(steps) |->
                             40 + Len(Chars(steps[i])) + 1 + (IF i = 1 THEN 4 ELSE 1)],
                         Len(steps))
               + ReprLen(risks, Len(risks))
               + ReprStrings(verification)
               + ReprLen([i \in 1..Len(steps) |-> 60 + 2 * Len(Chars(steps[i]))],
                         Len(steps))
    IN  IF ~ctx.mental_model.built
        THEN LayerResult("FAILED", <<"no mental model built">>, FALSE, ctx, 2)
        ELSE LayerResult("SATISFIED", <<>>, TRUE,
                         [ctx EXCEPT !.steps = steps, !.verification = verification],
                         content)

\* Execute.run; every step of the stub is done
Execute(ctx) ==
    IF ctx.steps = <<>>
    THEN LayerResult("FAILED", <<"no execution plan">>, FALSE, ctx, 2)
    ELSE LayerResult("SATISFIED", <<>>, TRUE, ctx,
                     42 + ReprLen([i \in 1..Len(ctx.steps) |->
                                      53 + Len(Chars(ctx.steps[i]))],
                                  Len(ctx.steps))
                        + ReprStrings(ctx.verification))

\* layer.run(self.context) of the layer with the given index
LayerRun(layer_index, ctx, acq) ==
    CASE layer_index = 1 -> Orient(ctx)
      [] layer_index = 2 -> Acquire(ctx)
      [] layer_index = 3 -> Comprehend(ctx, acq)
      [] layer_index = 4 -> Strategize(ctx)
      [] layer_index = 5 -> Execute(ctx)

(* ------------------------------ engine --------------------------------- *)

\* feed_context that indexes before it stores
FeedContextIndexFirst(content, source, tier) ==
    LET tag == auto_tag(content, source)
    IN  /\ IndexRaw(Len(Chars(content)), source, tag.type, tag.relevance,
                    tag.volatility, tag.scope, tag.trust)
        /\ Store(Len(Chars(content)), tier, source, {})
        /\ acquired' = IF last'.ok
                       THEN [x \in DOMAIN acquired \cup {source} |->
                                IF x = source THEN content ELSE acquired[x]]
                       ELSE acquired
        /\ engine' = [engine EXCEPT !.last =
                         ECall("feed_context", calls + 1, <<content, source, tier>>,
                               ~last'.ok, <<"store">>, 0)]

\* WorkflowEngine.feed_context: store on the shelf; when store did not
\* raise, tag and index the content and record it under its source
FeedContext(content, source, tier) ==
    LET tag == auto_tag(content, source)
    IN  /\ Store(Len(Chars(content)), tier, source, {})
        /\ IF last'.ok
           THEN /\ IndexRaw(Len(Chars(content)), source, tag.type, tag.relevance,
                            tag.volatility, tag.scope, tag.trust)
                /\ acquired' = [x \in DOMAIN acquired \cup {source} |->
                                   IF x = source THEN content ELSE acquired[x]]
           ELSE UNCHANGED <<indexVars, acquired>>
        /\ engine' = [engine EXCEPT !.last =
                         ECall("feed_context", calls + 1, <<content, source, tier>>,
                               ~last'.ok, <<"store">>, 0)]

(* ------------------------------ run ------------------------------------ *)

\* loop test that lets one more iteration through
LimitReachedLate(e) == e.total_iterations > e.max_total_iterations

\* total_iterations >= self.config.max_total_iterations
LimitReached(e) == e.total_iterations >= e.max_total_iterations

\* retry test that lets one more failure through
RetriesExhaustedLate(count, max_layer_retries) == count > max_layer_retries

\* self.failure_counts[layer.index] >= self.config.max_layer_retries
RetriesExhausted(count, max_layer_retries) == count >= max_layer_retries

\* run up to the loop: the request goes to the shelf and is classified.
\* When store raises, run ends there
RunStart(request) ==
    LET \* task_type.name.lower()
        name == [BUG |-> "bug", FEATURE |-> "feature", REFACTOR |-> "refactor",
                 QUESTION |-> "question", CONFIG |-> "config",
                 UNKNOWN |-> "unknown"]
        e == [engine EXCEPT !.context.user_request = request,
                            !.runs = @ + 1,
                            !.run_start = Len(engine.history),
                            !.last = ECall("run", calls + 1, <<request>>, FALSE,
                                           <<"store">>, 0)]
    IN  /\ engine.pc = "idle"
        /\ Store(Len(Chars(request)), "PINNED", "user", {<<"type", "user-intent">>})
        /\ engine' = IF last'.ok
                     THEN [e EXCEPT !.pc = "loop",
                                    !.task_type = classify(request),
                                    !.context.task_type = name[classify(request)],
                                    !.current_layer_idx = 0,
                                    !.total_iterations = 0]
                     ELSE [e EXCEPT !.last.raised = TRUE]
        /\ UNCHANGED <<held, indexVars, acquired>>

\* one iteration of the loop of run, up to the auto-compress test: the
\* layer is skipped, or run and recorded; a satisfied layer has its output
\* stored, a failed one is counted and aborts the run or falls back.
\* result is layer.run(self.context), the one call of the iteration
RunLayer ==
    /\ engine.pc = "loop"
    /\ engine.current_layer_idx < Len(LayerNames)
    /\ ~LimitReached(engine)
    /\ \E result \in {LayerRun(engine.current_layer_idx + 1, engine.context,
                                 acquired)} :
        LET layer_index == engine.current_layer_idx + 1
            \* _shelf_layer_output: the tier and the source "layer:<name>"
            tier_map == <<"HOT", "WARM", "HOT", "HOT", "WARM">>
            source == <<"layer:orient", "layer:acquire", "layer:comprehend",
                        "layer:strategize", "layer:execute">>
            turn == [layer_name |-> LayerNames[layer_index],
                     status |-> result.status, gaps |-> result.gaps]
            e == [engine EXCEPT !.total_iterations = @ + 1]
            ran == [e EXCEPT !.history = Append(@, turn)]
            count == engine.failure_counts[layer_index] + 1
            failed == [ran EXCEPT !.failure_counts[layer_index] = count]
            fallback_layer == plan_recovery(layer_index, count)
        IN  /\ IF should_skip_layer(engine.task_type, layer_index)
               THEN /\ engine' = [e EXCEPT !.current_layer_idx = @ + 1]
                    /\ UNCHANGED <<capacity, entries, now, tick, last, retrievedAfter>>
               ELSE IF result.status = "SATISFIED"
               THEN /\ Store(result.content, tier_map[layer_index], source[layer_index],
                             {<<"layer", LayerNames[layer_index]>>})
                    /\ engine' =
                          IF last'.ok
                          THEN [ran EXCEPT !.last.shelf_calls = Append(@, "store"),
                                           !.context = result.context,
                                           !.current_layer_idx = @ + 1,
                                           !.pc = "compress"]
                          ELSE [ran EXCEPT !.last.shelf_calls = Append(@, "store"),
                                           !.context = result.context,
                                           !.last.raised = TRUE,
                                           !.pc = "idle"]
               ELSE /\ engine' =
                          IF RetriesExhausted(count, engine.max_layer_retries)
                          THEN [failed EXCEPT !.context.aborted_at = LayerNames[layer_index],
                                              !.context.abort_reason = result.gaps,
                                              !.pc = "return"]
                          ELSE [failed EXCEPT !.current_layer_idx = Max(0, fallback_layer - 1),
                                              !.context = IF result.output THEN result.context
                                                          ELSE @,
                                              !.pc = "compress"]
                    /\ UNCHANGED <<capacity, entries, now, tick, last, retrievedAfter>>
            /\ UNCHANGED <<held, indexVars, acquired, calls, threadVars, cycleVars>>

\* the end of an iteration: the cold tier is compressed when the shelf is
\* at least 85% full
RunCompress ==
    /\ engine.pc = "compress"
    /\ IF capacity > 0 /\ 20 * used(entries) >= 17 * capacity
       THEN /\ Compress("COLD")
            /\ engine' = [engine EXCEPT !.last.shelf_calls = Append(@, "compress"),
                                        !.pc = "loop"]
       ELSE /\ engine' = [engine EXCEPT !.pc = "loop"]
            /\ UNCHANGED <<capacity, entries, now, tick, last, retrievedAfter>>
    /\ UNCHANGED <<held, indexVars, acquired, calls, threadVars, cycleVars>>

\* the loop is left, by its test, the iteration limit or an abort, and
\* results() reads the shelf and the index
RunReturn ==
    /\ \/ engine.pc = "return"
       \/ /\ engine.pc = "loop"
          /\ \/ engine.current_layer_idx >= Len(LayerNames)
             \/ LimitReached(engine)
    /\ Snapshot
    /\ Summary
    /\ engine' = [engine EXCEPT !.last.shelf_calls = Append(@, "snapshot"),
                                !.pc = "idle"]
    /\ UNCHANGED <<held, acquired, calls, threadVars, cycleVars>>

\* a call of TaskRouter.plan_recovery
PlanRecovery(failed_layer, failure_count) ==
    /\ engine.pc = "idle"
    /\ engine' = [engine EXCEPT !.last =
                     ECall("plan_recovery", calls + 1, <<failed_layer, failure_count>>,
                           FALSE, <<>>, plan_recovery(failed_layer, failure_count))]
    /\ UNCHANGED <<shelfVars, indexVars, acquired>>

(* ------------------------------ turn cycle ----------------------------- *)

\* concatenation of a sequence of sequences
RECURSIVE Flatten(_)
Flatten(seqs) == IF seqs = <<>> THEN <<>> ELSE Head(seqs) \o Flatten(Tail(seqs))

\* least element of a non-empty set of numbers: the first hit of a loop
First(S) == CHOOSE x \in S : \A y \in S : x <= y

\* a Node object.  Its identity is the place it takes in cycle.nodes;
\* extensions holds the places of its extension nodes, and its id is the
\* id string cut at its underscores and numbers
Node(id, type, status, content) ==
    [id |-> id, type |-> type, status |-> status, content |-> content,
     result |-> "", extensions |-> <<>>]

\* Node.mark_fail
MarkFail(node, reason) ==
    [node EXCEPT !.status = "FAILED", !.type = "FAIL", !.result = reason]

\* TurnCycle.BASELINES, by cycle offset
BASELINES ==
    [cycle_offset \in 0..3 |-> CASE cycle_offset = 0 -> <<1, 1>>
                                 [] cycle_offset = 1 -> <<2, 1>>
                                 [] cycle_offset = 2 -> <<3, 2, 1>>
                                 [] cycle_offset = 3 -> <<4, 3, 2>>]

\* the cycle c after a call, with the record of that call
Returned(c, op, args, returned) ==
    [c EXCEPT !.last = [op |-> op, args |-> args, returned |-> returned]]

\* TurnCycle.preload_turn: the rows of the baseline with fresh PLANNED
\* nodes, and one more row of the carried nodes, renamed and CARRIED
preload_turn(c, turn_number, has_context) ==
    LET cycle_offset == IF turn_number = 0 THEN 0 ELSE ((turn_number - 1) % 3) + 1
        baseline == BASELINES[cycle_offset]
        node_type(row_idx, row_length) ==
            IF turn_number = 0
            THEN IF row_idx = 0 /\ has_context THEN "COLLAB" ELSE "TOOL"
            ELSE IF cycle_offset = 1 THEN "TOOL"
            ELSE IF row_idx = 0 THEN "COLLAB"
            ELSE IF row_length = 1 THEN "TOOL"
            ELSE "COLLAB"
        fresh == Flatten([r \in 1..Len(baseline) |->
                            [pos \in 1..baseline[r] |->
                                Node(<<"t", turn_number, "r", r - 1, "p", pos - 1>>,
                                     node_type(r - 1, baseline[r]), "PLANNED", "")]])
        rows == [r \in 1..Len(baseline) |->
                    [pos \in 1..baseline[r] |->
                        Len(c.nodes) + SumOver(baseline, r - 1) + pos]]
        carried == c.carried_nodes
        renamed == [a \in 1..Len(c.nodes) |->
                      LET at == {i \in 1..Len(carried) : carried[i] = a}
                      IN  IF at = {} THEN c.nodes[a]
                          ELSE [c.nodes[a] EXCEPT
                                   !.id = <<"t", turn_number, "carry",
                                            (CHOOSE i \in at : \A j \in at : j <= i) - 1>>,
                                   !.status = "CARRIED"]]
        turn == [number |-> turn_number,
                 rows |-> IF carried # <<>> THEN Append(rows, carried) ELSE rows,
                 unchosen_pool |-> <<>>,
                 picked |-> <<>>]
    IN  Returned([c EXCEPT !.nodes = renamed \o fresh,
                           !.turns = Append(@, turn),
                           !.carried_nodes = <<>>,
                           !.cycle_count = IF cycle_offset = 1 /\ turn_number > 1
                                           THEN @ + 1 ELSE @],
                 "preload_turn", <<turn_number, has_context>>, turn.rows)

\* a node of a row that was not picked, which keeps its status
MarkUnchosenKeepsStatus(node) ==
    [node EXCEPT !.type = "UNCHOSEN", !.result = "path not chosen"]

\* what pick_path does to a node of a row that was not picked, and to each
\* of its extensions
MarkUnchosen(node) ==
    [node EXCEPT !.type = "UNCHOSEN", !.status = "COMPLETED",
                 !.result = "path not chosen"]

\* TurnCycle.pick_path.  The rows of a turn share no node, and no extension
\* of a node of one row is a node of another, so the loop over the rows
\* comes to the same for every order.  picked records the row index of the
\* call for the properties
pick_path(c, row_index, user_message) ==
    LET t == Len(c.turns)
        turn == c.turns[t]
        i == row_index + 1
        Members(row) == {row[p] : p \in 1..Len(row)}
        chosen == IF i \in 1..Len(turn.rows) THEN Members(turn.rows[i]) ELSE {}
        others == UNION {Members(turn.rows[r]) : r \in (1..Len(turn.rows)) \ {i}}
        flipped == others \cup UNION {Members(c.nodes[a].extensions) : a \in others}
        nodes == [a \in 1..Len(c.nodes) |->
                    IF a \in flipped THEN MarkUnchosen(c.nodes[a])
                    ELSE IF a \in chosen
                    THEN [c.nodes[a] EXCEPT
                             !.status = "ACTIVE",
                             !.content = IF user_message # "" /\ @ = ""
                                         THEN user_message ELSE @]
                    ELSE c.nodes[a]]
        pool == Flatten([r \in 1..Len(turn.rows) |->
                           IF r = i THEN <<>>
                           ELSE [p \in 1..Len(turn.rows[r]) |->
                                    [content |-> nodes[turn.rows[r][p]].content,
                                     original_id |-> nodes[turn.rows[r][p]].id]]])
        chosen_row == IF i \in 1..Len(turn.rows)
                      THEN [p \in 1..Len(turn.rows[i]) |-> nodes[turn.rows[i][p]].id]
                      ELSE <<>>
    IN  IF c.turns = <<>>
        THEN Returned(c, "pick_path", <<row_index, user_message>>, <<>>)
        ELSE Returned([c EXCEPT !.nodes = nodes,
                                !.turns[t].unchosen_pool = pool,
                                !.turns[t].picked = <<row_index>>],
                      "pick_path", <<row_index, user_message>>, chosen_row)

\* the end of the extension chain below a node: anchor.extensions[-1] for
\* as long as there is one
RECURSIVE ChainEnd(_, _)
ChainEnd(nodes, a) ==
    IF nodes[a].extensions = <<>> THEN a
    ELSE ChainEnd(nodes, nodes[a].extensions[Len(nodes[a].extensions)])

\* TurnCycle.reclaim: the first of the pool leaves it, and an ACTIVE node is
\* grafted at the end of the chain of the first row that has a node that
\* is not UNCHOSEN.  <<>> is None
reclaim(c, node_type, content) ==
    LET t == Len(c.turns)
        turn == c.turns[t]
        pool == turn.unchosen_pool
        source == Head(pool)
        popped == [c EXCEPT !.turns[t].unchosen_pool = Tail(pool)]
        live == {r \in 1..Len(turn.rows) :
                    \E p \in 1..Len(turn.rows[r]) :
                        c.nodes[turn.rows[r][p]].type # "UNCHOSEN"}
        row == turn.rows[First(live)]
        anchor == ChainEnd(c.nodes, row[Len(row)])
        reclaimed == Node(c.nodes[anchor].id
                              \o <<"reclaim", Len(c.nodes[anchor].extensions)>>,
                          node_type, "ACTIVE",
                          IF content # "" THEN content ELSE source.content)
    IN  IF c.turns = <<>> THEN Returned(c, "reclaim", <<node_type, content>>, <<>>)
        ELSE IF pool = <<>> THEN Returned(c, "reclaim", <<node_type, content>>, <<>>)
        ELSE IF live = {} THEN Returned(popped, "reclaim", <<node_type, content>>, <<>>)
        ELSE Returned([popped EXCEPT
                          !.nodes = Append([@ EXCEPT ![anchor].extensions =
                                                        Append(@, Len(c.nodes) + 1)],
                                           reclaimed)],
                      "reclaim", <<node_type, content>>, <<reclaimed.id>>)

\* Node.extend on the node at place a
extend(c, a, node_type, content) ==
    LET self == c.nodes[a]
        ext == Node(self.id \o <<"ext", Len(self.extensions)>>, node_type,
                    "PLANNED", content)
    IN  Returned([c EXCEPT !.nodes = Append([@ EXCEPT ![a].extensions =
                                                         Append(@, Len(c.nodes) + 1)],
                                            ext)],
                 "extend", <<self.id, node_type, content>>, <<ext.id>>)

\* the walk of a whole extension chain: the queue is taken from the front
\* and the extensions of each node join it at the back
RECURSIVE Chain(_, _)
Chain(nodes, queue) ==
    IF queue = <<>> THEN <<>>
    ELSE <<Head(queue)>> \o Chain(nodes, Tail(queue) \o nodes[Head(queue)].extensions)

\* TurnCycle._find_node: the place of the first node with the id in the
\* walk of turns, rows, nodes and their chains, 0 for None
find_node(c, node_id) ==
    LET all == Flatten([t \in 1..Len(c.turns) |->
                  Flatten([r \in 1..Len(c.turns[t].rows) |->
                     Flatten([p \in 1..Len(c.turns[t].rows[r]) |->
                        <<c.turns[t].rows[r][p]>>
                            \o Chain(c.nodes,
                                     c.nodes[c.turns[t].rows[r][p]].extensions)])])])
        hits == {k \in 1..Len(all) : c.nodes[all[k]].id = node_id}
    IN  IF hits = {} THEN 0 ELSE all[First(hits)]

\* TurnCycle.mark_fail
mark_fail(c, node_id, reason) ==
    LET a == find_node(c, node_id)
    IN  Returned(IF a = 0 THEN c ELSE [c EXCEPT !.nodes[a] = MarkFail(@, reason)],
                 "mark_fail", <<node_id, reason>>, <<>>)

\* TurnCycle.mark_complete
mark_complete(c, node_id, result) ==
    LET a == find_node(c, node_id)
    IN  Returned(IF a = 0 THEN c
                 ELSE [c EXCEPT !.nodes[a].status = "COMPLETED",
                                !.nodes[a].result = result],
                 "mark_complete", <<node_id, result>>, <<>>)

\* TurnCycle.is_path_complete
is_path_complete(c) ==
    LET turn == c.turns[Len(c.turns)]
        Done(a) == c.nodes[a].status \in {"COMPLETED", "FAILED"}
        started == {r \in 1..Len(turn.rows) :
                       \E p \in 1..Len(turn.rows[r]) :
                           /\ c.nodes[turn.rows[r][p]].status
                                  \in {"ACTIVE", "COMPLETED", "FAILED"}
                           /\ c.nodes[turn.rows[r][p]].type # "UNCHOSEN"}
        chosen_row == turn.rows[First(started)]
        all_path_nodes ==
            Flatten([p \in 1..Len(chosen_row) |->
                        IF c.nodes[chosen_row[p]].type # "UNCHOSEN"
                        THEN <<chosen_row[p]>>
                                 \o Chain(c.nodes, c.nodes[chosen_row[p]].extensions)
                        ELSE <<>>])
        baseline_done == \A k \in 1..Len(all_path_nodes) :
                            c.nodes[all_path_nodes[k]].type \in {"TOOL", "COLLAB"}
                                => Done(all_path_nodes[k])
        pool_empty == turn.unchosen_pool = <<>>
        extensions_done ==
            \A k \in 1..Len(all_path_nodes) :
                c.nodes[all_path_nodes[k]].type \in {"TOOL_EXT", "COLLAB_EXT", "EMERGE"}
                    => Done(all_path_nodes[k])
    IN  IF c.turns = <<>> THEN TRUE
        ELSE IF started = {} THEN FALSE
        ELSE IF all_path_nodes = <<>> THEN FALSE
        ELSE IF ~baseline_done THEN FALSE
        ELSE baseline_done /\ pool_empty /\ extensions_done

\* TurnCycle._snapshot_turn: the nodes of the rows and their direct
\* extensions
snapshot_turn(c, turn) ==
    LET Data(a) == [id |-> c.nodes[a].id, type |-> c.nodes[a].type,
                    status |-> c.nodes[a].status, content |-> c.nodes[a].content,
                    result |-> c.nodes[a].result]
    IN  [turn |-> turn.number,
         rows |-> [r \in 1..Len(turn.rows) |->
                     [p \in 1..Len(turn.rows[r]) |->
                         [node |-> Data(turn.rows[r][p]),
                          extensions |->
                              [k \in 1..Len(c.nodes[turn.rows[r][p]].extensions) |->
                                  Data(c.nodes[turn.rows[r][p]].extensions[k])]]]]]

\* TurnCycle.end_turn: the snapshot joins history; after the third turn of
\* a cycle the PLANNED nodes and the PLANNED direct extensions are carried
end_turn(c) ==
    LET turn == c.turns[Len(c.turns)]
        cycle_offset == IF turn.number > 0 THEN ((turn.number - 1) % 3) + 1 ELSE 0
        Planned(a) == IF c.nodes[a].status = "PLANNED" THEN <<a>> ELSE <<>>
        leftover ==
            Flatten([r \in 1..Len(turn.rows) |->
               Flatten([p \in 1..Len(turn.rows[r]) |->
                  Planned(turn.rows[r][p])
                      \o Flatten([k \in 1..Len(c.nodes[turn.rows[r][p]].extensions) |->
                                     Planned(c.nodes[turn.rows[r][p]].extensions[k])])])])
    IN  IF c.turns = <<>> THEN Returned(c, "end_turn", <<>>, <<>>)
        ELSE Returned([c EXCEPT !.history = Append(@, snapshot_turn(c, turn)),
                                !.carried_nodes = IF cycle_offset = 3
                                                  THEN @ \o leftover ELSE @],
                      "end_turn", <<>>, <<>>)

(* ------------------------------ fail marker ---------------------------- *)

\* the reasons _check_node finds against a node with the default criteria.
\* A node has never more than one: a PLANNED node has no result, and an
\* empty result has no keyword
Reasons(node) ==
    LET error_keywords == <<"error", "failed", "exception", "timeout",
                            "not found", "permission denied", "abort">>
        result == Chars(node.result)
        lower_result == Lower(result)
        hits == {k \in 1..Len(error_keywords) :
                    Contains(lower_result, error_keywords[k])}
        never == IF node.status = "PLANNED"
                 THEN <<"node was never activated">> ELSE <<>>
        empty == IF /\ node.status = "COMPLETED"
                    /\ \A i \in 1..Len(result) : result[i] = " "
                 THEN <<"completed with empty result">> ELSE <<>>
        keyword == IF node.result # "" /\ hits # {}
                   THEN <<CASE First(hits) = 1 -> "result contains 'error'"
                            [] First(hits) = 2 -> "result contains 'failed'"
                            [] First(hits) = 3 -> "result contains 'exception'"
                            [] First(hits) = 4 -> "result contains 'timeout'"
                            [] First(hits) = 5 -> "result contains 'not found'"
                            [] First(hits) = 6 -> "result contains 'permission denied'"
                            [] First(hits) = 7 -> "result contains 'abort'">>
                   ELSE <<>>
    IN  IF node.status = "FAILED" THEN <<>> ELSE never \o empty \o keyword

\* FailMarker._check_node on the nodes of visit, one after the other
RECURSIVE CheckNodes(_, _, _)
CheckNodes(nodes, visit, report) ==
    IF visit = <<>> THEN [nodes |-> nodes, report |-> report]
    ELSE LET a == Head(visit)
             reasons == Reasons(nodes[a])
         IN  IF reasons = <<>> THEN CheckNodes(nodes, Tail(visit), report)
             ELSE CheckNodes([nodes EXCEPT
                                 ![a] = MarkFail(@, CASE Len(reasons) = 1 -> reasons[1])],
                             Tail(visit),
                             Append(report, [node_id |-> nodes[a].id,
                                             original_type |-> "FAIL",
                                             reasons |-> reasons]))

\* FailMarker.scan_turn: each node of the rows and each of its direct
\* extensions is checked.  turn_number <<>> is None, the current turn
scan_turn(c, turn_number) ==
    LET matching == {t \in 1..Len(c.turns) :
                        turn_number # <<>> /\ c.turns[t].number = turn_number[1]}
        turn == c.turns[IF turn_number # <<>> THEN First(matching) ELSE Len(c.turns)]
        visit == Flatten([r \in 1..Len(turn.rows) |->
                    Flatten([p \in 1..Len(turn.rows[r]) |->
                       <<turn.rows[r][p]>> \o c.nodes[turn.rows[r][p]].extensions])])
        scanned == CheckNodes(c.nodes, visit, <<>>)
    IN  IF \/ turn_number # <<>> /\ matching = {}
           \/ turn_number = <<>> /\ c.turns = <<>>
        THEN Returned(c, "scan_turn", <<turn_number>>, <<>>)
        ELSE Returned([c EXCEPT !.nodes = scanned.nodes],
                      "scan_turn", <<turn_number>>, scanned.report)

(* ------------------------------ run log -------------------------------- *)

\* RunLog._tally_node on the nodes of walk, one after the other
RECURSIVE Tally(_, _, _)
Tally(entry, nodes, walk) ==
    IF walk = <<>> THEN entry
    ELSE LET node == nodes[Head(walk)]
             completed == node.status = "COMPLETED"
             failed == node.status = "FAILED"
             One(test) == IF test THEN 1 ELSE 0
             With(test, x) == IF test THEN <<x>> ELSE <<>>
         IN  Tally([entry EXCEPT
                       !.total_nodes = @ + 1,
                       !.completed_nodes = @ + One(completed),
                       !.failed_nodes = @ + One(failed),
                       !.fail_patterns = @ \o With(failed /\ node.result # "", node.result),
                       !.unchosen_nodes =
                           @ + One(~completed /\ ~failed /\ node.type = "UNCHOSEN"),
                       !.emergence_count = @ + One(node.type = "EMERGE"),
                       !.emerged_unused =
                           @ \o With(node.type = "EMERGE" /\ ~completed, node.content),
                       !.unfinished_content =
                           @ \o With(node.status = "PLANNED" /\ node.content # "",
                                     node.content)],
                   nodes, Tail(walk))

\* RunLog.log_cycle at the time timestamp: the entry of the cycle c, which
\* joins the entries of the log
log_cycle(entries_, c, run_id, user_topics, timestamp) ==
    LET rows == Flatten([t \in 1..Len(c.turns) |-> c.turns[t].rows])
        walk == Flatten([r \in 1..Len(rows) |->
                   Flatten([p \in 1..Len(rows[r]) |->
                      <<rows[r][p]>>
                          \o Chain(c.nodes, c.nodes[rows[r][p]].extensions)])])
        Count(types) == Cardinality({k \in 1..Len(walk) : c.nodes[walk[k]].type \in types})
        entry == [run_id |-> IF run_id = "" THEN <<"run", timestamp, Len(entries_)>>
                             ELSE run_id,
                  timestamp |-> timestamp,
                  turns |-> IF c.history # <<>> THEN c.history
                            ELSE [t \in 1..Len(c.turns) |-> snapshot_turn(c, c.turns[t])],
                  total_nodes |-> 0, completed_nodes |-> 0, failed_nodes |-> 0,
                  unchosen_nodes |-> 0,
                  extensions_used |-> Len(walk) - Len(Flatten(rows)),
                  emergence_count |-> 0, reclaims_used |-> 0,
                  dominant_path_type |->
                      IF Count({"TOOL", "TOOL_EXT"}) >= Count({"COLLAB", "COLLAB_EXT"})
                      THEN "tool" ELSE "collab",
                  user_topics |-> user_topics,
                  unfinished_content |-> <<>>, emerged_unused |-> <<>>,
                  fail_patterns |-> <<>>]
    IN  Append(entries_, Tally(entry, c.nodes, walk))

(* ------------------------------ boot loader ---------------------------- *)

\* list.sort with key score and reverse=True: stable, highest score first
RECURSIVE SortByScore(_)
SortByScore(items) ==
    IF items = <<>> THEN <<>>
    ELSE LET sorted == SortByScore(SubSeq(items, 1, Len(items) - 1))
             x == items[Len(items)]
             k == Cardinality({i \in 1..Len(sorted) : sorted[i].score >= x.score})
         IN  SubSeq(sorted, 1, k) \o <<x>> \o SubSeq(sorted, k + 1, Len(sorted))

\* BootLoader._score_entries at the time time_, scores in units of 1/Scale.
\* The content of a summary is kept as its parts, size is its length
score_entries(entries_, time_) ==
    LET RECENCY_WEIGHT == Scale
        RELEVANCE_WEIGHT == 2 * Scale
        FAIL_PENALTY == (3 * Scale) \div 2
        EMERGENCE_BONUS == (9 * Scale) \div 5
        Digits(n) == IF n < 10 THEN 1 ELSE IF n < 100 THEN 2 ELSE 3
        Item(entry, content, size, score, type) ==
            [source |-> entry.run_id, content |-> content, size |-> size,
             score |-> score, type |-> type]
        Items(entry) ==
            LET age_hours == time_ - entry.timestamp
                recency == RECENCY_WEIGHT \div (1 + age_hours)
                fail_count(content) ==
                    Cardinality({k \in 1..Len(entry.fail_patterns) :
                                    Contains(Chars(content), entry.fail_patterns[k])})
            IN  [k \in 1..Len(entry.unfinished_content) |->
                    Item(entry, entry.unfinished_content[k],
                         Len(Chars(entry.unfinished_content[k])),
                         recency + RELEVANCE_WEIGHT
                             - fail_count(entry.unfinished_content[k]) * FAIL_PENALTY,
                         "unfinished")]
                \o [k \in 1..Len(entry.emerged_unused) |->
                       Item(entry, entry.emerged_unused[k],
                            Len(Chars(entry.emerged_unused[k])),
                            recency + EMERGENCE_BONUS, "emergence")]
                \o [k \in 1..Len(entry.user_topics) |->
                       Item(entry, entry.user_topics[k],
                            Len(Chars(entry.user_topics[k])),
                            recency + RELEVANCE_WEIGHT \div 2, "topic")]
                \o (IF entry.completed_nodes > 0
                    THEN <<Item(entry,
                                <<"Completed", entry.completed_nodes, entry.total_nodes,
                                  entry.failed_nodes, entry.dominant_path_type>>,
                                10 + Digits(entry.completed_nodes) + 1
                                   + Digits(entry.total_nodes) + 8
                                   + Digits(entry.failed_nodes) + 15
                                   + Len(Chars(entry.dominant_path_type)),
                                recency \div 2, "summary")>>
                    ELSE <<>>)
    IN  SortByScore(Flatten([e \in 1..Len(entries_) |-> Items(entries_[e])]))

\* the loop of _context_boot over the scored items: at most HOT_LIMIT items
\* of twice the threshold are hot, at most WARM_LIMIT others are warm
RECURSIVE Split(_, _, _)
Split(scored, hot_items, warm_items) ==
    IF scored = <<>> THEN [hot_items |-> hot_items, warm_items |-> warm_items]
    \* HOT_LIMIT is 5 and CONTEXT_THRESHOLD * 2 is 0.6
    ELSE IF Len(hot_items) < 5 /\ Head(scored).score >= 2 * ((3 * Scale) \div 10)
    THEN Split(Tail(scored), Append(hot_items, Head(scored)), warm_items)
    ELSE IF Len(warm_items) < 10
    THEN Split(Tail(scored), hot_items, Append(warm_items, Head(scored)))
    ELSE Split(Tail(scored), hot_items, warm_items)

\* the stores of _context_boot, one after the other from the outcome r of
\* the one before; a store that raises ends them
RECURSIVE StoreItems(_, _)
StoreItems(r, items) ==
    IF items = <<>> \/ ~r.ok THEN r
    ELSE StoreItems(store(r.entries, Head(items).size, Head(items).tier,
                          Head(items).source,
                          {<<"boot", "true">>, <<"type", Head(items).type>>})
                        @@ [content |-> Head(items).size, tier |-> Head(items).tier],
                    Tail(items))

\* BootLoader.boot after hours more hours, called as op: the decision, and
\* on a context boot the hot and the warm items go to the shelf
Boot(op, hours) ==
    LET time_ == boot.time + hours
        scored == score_entries(boot.entries, time_)
        \* CONTEXT_THRESHOLD is 0.3
        cold == boot.entries = <<>> \/ scored = <<>>
                    \/ scored[1].score < (3 * Scale) \div 10
        split == Split(scored, <<>>, <<>>)
        Tiered(items, tier) ==
            [k \in 1..Len(items) |->
                [size |-> items[k].size, tier |-> tier, source |-> items[k].source,
                 type |-> items[k].type]]
        loads == IF cold \/ ~boot.shelf THEN <<>>
                 ELSE Tiered(split.hot_items, "HOT") \o Tiered(split.warm_items, "WARM")
        r == StoreItems([ok |-> TRUE, entries |-> entries, now |-> now], loads)
        newest(field) == Flatten([e \in 1..Len(boot.entries) |->
                                    boot.entries[Len(boot.entries) + 1 - e][field]])
        UpTo5(s) == SubSeq(s, 1, IF Len(s) < 5 THEN Len(s) ELSE 5)
        patterns == Flatten([e \in 1..Len(boot.entries) |-> boot.entries[e].fail_patterns])
        fail_frequency ==
            SortByScore(Flatten([k \in 1..Len(patterns) |->
                IF \E j \in 1..(k - 1) : patterns[j] = patterns[k] THEN <<>>
                ELSE <<[pattern |-> patterns[k],
                        score |-> Cardinality({j \in 1..Len(patterns) :
                                                  patterns[j] = patterns[k]})]>>]))
        tool_runs == Cardinality({e \in 1..Len(boot.entries) :
                         /\ e > Len(boot.entries) - 10
                         /\ boot.entries[e].dominant_path_type = "tool"})
        collab_runs == Cardinality({e \in 1..Len(boot.entries) :
                           /\ e > Len(boot.entries) - 10
                           /\ boot.entries[e].dominant_path_type = "collab"})
        context ==
            IF cold
            THEN [has_context |-> FALSE, hot_items |-> <<>>, warm_items |-> <<>>,
                  suggested_path_type |-> "tool", unfinished |-> <<>>,
                  dormant_ideas |-> <<>>, avoid_patterns |-> <<>>]
            ELSE [has_context |-> TRUE, hot_items |-> split.hot_items,
                  warm_items |-> split.warm_items,
                  suggested_path_type |-> IF tool_runs >= collab_runs THEN "tool"
                                          ELSE "collab",
                  unfinished |-> UpTo5(newest("unfinished_content")),
                  dormant_ideas |-> UpTo5(newest("emerged_unused")),
                  avoid_patterns |-> SelectSeq(fail_frequency,
                                               LAMBDA f : f.score >= 2)]
    IN  /\ boot.time + hours <= MaxHours
        /\ boot' = [boot EXCEPT !.time = time_,
                                !.last = [op |-> op, raised |-> ~r.ok,
                                          returned |-> IF r.ok THEN <<context>>
                                                       ELSE <<>>]]
        /\ entries' = r.entries
        /\ now' = r.now
        /\ IF loads = <<>>
           THEN UNCHANGED <<last, retrievedAfter>>
           ELSE /\ last' = Call("store", r.ok, r.content, r.tier, {}, r.token_count,
                                r.evicted, r.returned, 0)
                /\ retrievedAfter' = Live(retrievedAfter, entries)
        /\ UNCHANGED <<capacity, tick, held>>

\* BootLoader.preview: the counts of the decision of boot()
Preview(hours) == Boot("preview", hours)

\* RunLog.log_cycle on the cycle c
LogCycle(c, run_id, user_topics) ==
    /\ boot' = [boot EXCEPT !.entries = log_cycle(@, c, run_id, user_topics, boot.time),
                            !.last = [op |-> "log_cycle", raised |-> FALSE,
                                      returned |-> <<>>]]
    /\ UNCHANGED shelfVars

(* ------------------------------ specification -------------------------- *)

StoreCall ==
    /\ \E a \in StoreArgs : Store(a[1], a[2], a[3], a[4])
    /\ UNCHANGED <<held, indexVars, engineVars, threadVars, cycleVars>>

RetrieveCall ==
    /\ \E a \in RetrieveArgs : Retrieve(a[1], a[2])
    /\ UNCHANGED <<indexVars, engineVars, threadVars, cycleVars>>

PromoteCall ==
    /\ \E i \in 1..Len(entries), new_tier \in PromoteTiers : Promote(i, new_tier)
    /\ UNCHANGED <<held, indexVars, engineVars, threadVars, cycleVars>>

DemoteCall ==
    /\ \E i \in 1..Len(entries), new_tier \in DemoteTiers : Demote(i, new_tier)
    /\ UNCHANGED <<held, indexVars, engineVars, threadVars, cycleVars>>

CompressCall ==
    /\ \E tier \in CompressTiers : Compress(tier)
    /\ UNCHANGED <<held, indexVars, engineVars, threadVars, cycleVars>>

SnapshotCall == Snapshot /\ UNCHANGED <<held, indexVars, engineVars, threadVars, cycleVars>>

IndexCall ==
    /\ \E a \in IndexArgs :
          Index(a[1], a[2], a[3], Tag(a[4], a[5], a[6], a[7], a[8]), {})
    /\ UNCHANGED <<shelfVars, engineVars, threadVars, cycleVars>>

IndexRawCall ==
    /\ \E a \in IndexRawArgs : IndexRaw(a[1], a[2], a[3], a[4], a[5], a[6], a[7])
    /\ UNCHANGED <<shelfVars, engineVars, threadVars, cycleVars>>

QueryCall ==
    /\ \E a \in QueryArgs : Query(a[1], a[2], a[3], a[4], a[5])
    /\ UNCHANGED <<shelfVars, engineVars, threadVars, cycleVars>>

CriticalCall == Critical /\ UNCHANGED <<shelfVars, engineVars, threadVars, cycleVars>>

StaleCall == Stale /\ UNCHANGED <<shelfVars, engineVars, threadVars, cycleVars>>

SummaryCall == Summary /\ UNCHANGED <<shelfVars, engineVars, threadVars, cycleVars>>

AutoTagCall ==
    /\ \E a \in AutoTagArgs : AutoTag(a[1], a[2])
    /\ UNCHANGED <<shelfVars, engineVars, threadVars, cycleVars>>

BySourceCall ==
    /\ \E source \in BySourceArgs : BySource(source)
    /\ UNCHANGED <<shelfVars, engineVars, threadVars, cycleVars>>

FeedContextCall ==
    /\ \E a \in FeedArgs : FeedContext(a[1], a[2], a[3])
    /\ UNCHANGED <<held, threadVars, cycleVars>>

StoreBeginCall ==
    /\ \E t \in Threads, a \in StoreArgs : StoreBegin(t, a[1], a[2], a[3], a[4])
    /\ UNCHANGED <<held, indexVars, engineVars, cycleVars>>

StoreAppendCall ==
    /\ \E t \in Threads : StoreAppend(t)
    /\ UNCHANGED <<held, indexVars, engineVars, cycleVars>>

\* one more call, while the behaviour has calls left
Counted(A) == calls < MaxCalls /\ A /\ calls' = calls + 1

Next ==
    \/ Counted(StoreCall)
    \/ Counted(RetrieveCall)
    \/ Counted(PromoteCall)
    \/ Counted(DemoteCall)
    \/ Counted(CompressCall)
    \/ Counted(SnapshotCall)

Spec == Init /\ [][Next]_vars

\* the behaviours whose clock advances at every reading
InitStrict == Init /\ tick = 1

SpecStrict == InitStrict /\ [][Next]_vars

\* the index on its own, next to a shelf that is not used
InitIndex == Init /\ capacity = 0 /\ tick = 0

NextIndex ==
    \/ Counted(IndexCall)
    \/ Counted(IndexRawCall)
    \/ Counted(QueryCall)
    \/ Counted(CriticalCall)
    \/ Counted(StaleCall)
    \/ Counted(BySourceCall)
    \/ Counted(SummaryCall)
    \/ Counted(AutoTagCall)

SpecIndex == InitIndex /\ [][NextIndex]_vars

\* the engine feeding a small shelf and the index, and the index read back
InitFeed == Init /\ capacity = 3 /\ tick = 0

NextFeed ==
    \/ Counted(FeedContextCall)
    \/ Counted(IndexRawCall)
    \/ Counted(BySourceCall)
    \/ Counted(CompressCall)

SpecFeed == InitFeed /\ [][NextFeed]_vars

\* two threads that call store on one shelf, a step at a time
InitThreads == Init /\ capacity \in {2, 3} /\ tick = 0

NextThreads ==
    \/ Counted(StoreBeginCall)
    \/ Counted(StoreAppendCall)

SpecThreads == InitThreads /\ [][NextThreads]_vars

\* the run loop of the engine, a step at a time, next to feed_context and
\* the recovery plan of the router.  The engines: <<max_total_iterations,
\* max_layer_retries, context_capacity>> of their EngineConfig
InitRun ==
    /\ \E c \in {<<20, 3, 500>>, <<3, 3, 500>>, <<20, 1, 500>>,
                  <<20, 3, 150>>, <<20, 3, 40>>} :
          /\ capacity = c[3]
          /\ engine = WorkflowEngine(c[1], c[2])
    /\ entries = <<>>
    /\ now = 0
    /\ tick = 0
    /\ last = Call("init", TRUE, 0, NoTier, {}, 0, <<>>, <<>>, 0)
    /\ retrievedAfter = {}
    /\ calls = 0
    /\ held = [alias |-> FALSE, returned |-> <<>>]
    /\ chunks = <<>>
    /\ ilast = ICall("init", <<>>, <<>>)
    /\ iheld = [alias |-> FALSE, returned |-> <<>>]
    /\ acquired = <<>>
    /\ threads = [t \in Threads |-> Idle]
    /\ overlapped = FALSE
    /\ cycle = TurnCycle
    /\ boot = BootLoader

NextRun ==
    \/ Counted(/\ \E request \in {"", "fix bug", "what is this?", "hello"} :
                     RunStart(request)
               /\ UNCHANGED <<threadVars, cycleVars>>)
    \/ Counted(/\ engine.pc = "idle"
               /\ \E a \in {<<"assert f(x)", "auth.py", "WARM">>,
                             <<"import failed", "README", "COLD">>} :
                     FeedContext(a[1], a[2], a[3])
               /\ UNCHANGED <<held, threadVars, cycleVars>>)
    \/ Counted(/\ \E a \in (1..5) \X (0..2) : PlanRecovery(a[1], a[2])
               /\ UNCHANGED <<threadVars, cycleVars>>)
    \/ RunLayer
    \/ RunCompress
    \/ RunReturn

SpecRun == InitRun /\ [][NextRun]_vars

\* a call of run goes on until it returns: weak fairness of each of its
\* steps, written out for RunLayer with the loop condition of run, under
\* which the body can be taken
SpecRunFair ==
    /\ SpecRun
    /\ WF_vars(RunCompress)
    /\ WF_vars(RunReturn)
    /\ \/ []<>(~(/\ engine.pc = "loop"
                 /\ engine.current_layer_idx < Len(LayerNames)
                 /\ ~LimitReached(engine)))
       \/ []<><<RunLayer>>_vars

\* a step of the turn cycle to c
CycleStep(c) ==
    /\ cycle' = c
    /\ UNCHANGED <<shelfVars, indexVars, engineVars, threadVars, boot>>

\* the nodes a caller holds in the current turn: the first node of the
\* first two rows and the nodes of their chains
Handles(c) ==
    IF c.turns = <<>> THEN {}
    ELSE LET rows == c.turns[Len(c.turns)].rows
             chain == Flatten([r \in 1..2 |->
                                 <<rows[r][1]>>
                                     \o Chain(c.nodes, c.nodes[rows[r][1]].extensions)])
         IN  {chain[k] : k \in 1..Len(chain)}

NextCycle ==
    \* preload_turn(turn_number, has_context)
    \/ Counted(\E a \in {<<0, FALSE>>, <<0, TRUE>>, <<1, FALSE>>, <<2, FALSE>>,
                         <<3, FALSE>>, <<4, FALSE>>} :
                  CycleStep(preload_turn(cycle, a[1], a[2])))
    \* pick_path(row_index, user_message)
    \/ Counted(\E a \in {<<-1, "">>, <<0, "go">>, <<1, "">>, <<2, "">>} :
                  CycleStep(pick_path(cycle, a[1], a[2])))
    \/ Counted(CycleStep(reclaim(cycle, "COLLAB_EXT", "")))
    \/ Counted(\E a \in Handles(cycle) :
                  CycleStep(extend(cycle, a, "COLLAB_EXT", "")))
    \/ Counted(\E a \in Handles(cycle) :
                  CycleStep(mark_fail(cycle, cycle.nodes[a].id, "x")))
    \/ Counted(\E a \in Handles(cycle), result \in {"", "done", "Timeout"} :
                  CycleStep(mark_complete(cycle, cycle.nodes[a].id, result)))
    \/ Counted(CycleStep(Returned(cycle, "is_path_complete", <<>>,
                                  is_path_complete(cycle))))
    \/ Counted(CycleStep(end_turn(cycle)))
    \* scan_turn(turn_number), <<>> for None
    \/ Counted(\E turn_number \in {<<>>, <<0>>} :
                  CycleStep(scan_turn(cycle, turn_number)))

\* the turn cycle and the fail marker on their own: the shelf is not used,
\* as for the index
SpecCycle == InitIndex /\ [][NextCycle]_vars

\* log_cycle calls: <<cycle, run_id, user_topics>>.  The cycles: none begun;
\* a first turn with a node completed on the chosen path; a first turn
\* with an EMERGE extension left PLANNED and a node failed over it
LogArgs ==
    {<<TurnCycle, "r1", <<"shelf">>>>,
     <<mark_complete(pick_path(preload_turn(TurnCycle, 1, FALSE), 0, "go"),
                     <<"t", 1, "r", 0, "p", 0>>, "done"),
       "r2", <<>>>>,
     <<mark_fail(extend(preload_turn(TurnCycle, 1, FALSE), 1, "EMERGE", "idea"),
                 <<"t", 1, "r", 0, "p", 1>>, "idea"),
       "r3", <<>>>>}

\* the boot loader with a shelf attached that holds one item or all of them
InitBoot == Init /\ capacity \in {3, 60} /\ tick = 0

\* boot and preview are called 0 or 1 hours after the call before
NextBoot ==
    \/ Counted(/\ \E a \in LogArgs : LogCycle(a[1], a[2], a[3])
               /\ UNCHANGED <<indexVars, engineVars, threadVars, cycle>>)
    \/ Counted(/\ \E hours \in {0, 1} : Boot("boot", hours)
               /\ UNCHANGED <<indexVars, engineVars, threadVars, cycle>>)
    \/ Counted(/\ \E hours \in {0, 1} : Preview(hours)
               /\ UNCHANGED <<indexVars, engineVars, threadVars, cycle>>)

SpecBoot == InitBoot /\ [][NextBoot]_vars

(* ------------------------------ properties ----------------------------- *)

Immune == {"HOT", "PINNED"}

\* sum of token_count over a sequence of entries
RECURSIVE Size(_)
Size(es) == IF es = <<>> THEN 0 ELSE Head(es).token_count + Size(Tail(es))

\* the shelf of the state before a store, at the moment of its k-th eviction
BeforeEviction(es, ev, k) ==
    SelectSeq(es, LAMBDA e : \A j \in 1..(k - 1) : e.id # ev[j].id)

\* C1: whenever a store call returns successfully, the sum of token_count
\* over the shelf entries is at most the capacity.
C1_StoreWithinCapacity ==
    (last.op = "store" /\ last.ok) => Size(entries) <= capacity

\* a successful store that had to evict and filled the shelf exactly
C1_Witness ==
    /\ last.op = "store" /\ last.ok
    /\ last.evicted # <<>>
    /\ Size(entries) = capacity

\* C2: no store call, successful or failing, removes an entry whose tier is
\* HOT or PINNED; a store whose content does not fit while the shelf holds
\* no SCRATCH, COLD or WARM entry raises the capacity error.
C2_TierImmunity ==
    [][last'.op = "store" =>
        /\ \A i \in 1..Len(entries) :
              entries[i].tier \in Immune =>
                 \E j \in 1..Len(entries') : entries'[j] = entries[i]
        /\ \A k \in 1..Len(last'.evicted) : last'.evicted[k].tier \notin Immune
        /\ ( /\ \A i \in 1..Len(entries) : entries[i].tier \in Immune
             /\ capacity - Size(entries) < last'.token_count )
           => ~last'.ok]_vars

\* a store that failed after evicting, with a HOT or PINNED entry kept
C2_Witness ==
    /\ last.op = "store" /\ ~last.ok
    /\ last.evicted # <<>>
    /\ \E i \in 1..Len(entries) : entries[i].tier \in Immune

\* C3: every single eviction of a store removes an entry of the first
\* non-empty tier in the order SCRATCH, COLD, WARM: a COLD entry goes only
\* when no SCRATCH entry is on the shelf, a WARM entry only when neither a
\* SCRATCH nor a COLD entry is.
C3_EvictionTierOrder ==
    [][last'.op = "store" =>
        /\ {last'.evicted[k].id : k \in 1..Len(last'.evicted)}
              = Ids(entries) \ Ids(entries')
        /\ \A k \in 1..Len(last'.evicted) :
              LET shelf == BeforeEviction(entries, last'.evicted, k)
                  victim == last'.evicted[k]
                  holds(t) == \E i \in 1..Len(shelf) : shelf[i].tier = t
              IN  /\ \E i \in 1..Len(shelf) : shelf[i] = victim
                  /\ victim.tier \in {"SCRATCH", "COLD", "WARM"}
                  /\ victim.tier = "COLD" => ~holds("SCRATCH")
                  /\ victim.tier = "WARM" => ~holds("SCRATCH") /\ ~holds("COLD")]_vars

\* one store evicted a SCRATCH, then a COLD, then a WARM entry
C3_Witness ==
    /\ last.op = "store"
    /\ Len(last.evicted) = 3
    /\ last.evicted[1].tier = "SCRATCH"
    /\ last.evicted[2].tier = "COLD"
    /\ last.evicted[3].tier = "WARM"

\* C4: the entry removed by an eviction has the smallest last_accessed among
\* the entries of its tier at the moment of the eviction, whatever the order
\* in which the entries were inserted.
C4_LruWithinTier ==
    [][last'.op = "store" =>
        \A k \in 1..Len(last'.evicted) :
           LET shelf == BeforeEviction(entries, last'.evicted, k)
               victim == last'.evicted[k]
           IN  \A i \in 1..Len(shelf) :
                  shelf[i].tier = victim.tier =>
                     victim.last_accessed <= shelf[i].last_accessed]_vars

\* a store evicted an entry although an entry of the same tier that was
\* inserted earlier, and accessed later, stays on the shelf
C4_Witness ==
    /\ last.op = "store"
    /\ \E k \in 1..Len(last.evicted), j \in 1..Len(entries) :
          /\ entries[j].tier = last.evicted[k].tier
          /\ entries[j].created_at < last.evicted[k].created_at
          /\ entries[j].last_accessed > last.evicted[k].last_accessed

\* C5: store of a content of size s = max(1, len(content) // 4) succeeds if
\* and only if s <= capacity - (total size of the HOT and PINNED entries);
\* otherwise it raises the capacity error and adds no entry, while a
\* successful store adds the content whole.
C5_StoreSucceedsIff ==
    [][last'.op = "store" =>
        LET s == IF last'.content \div 4 >= 1 THEN last'.content \div 4 ELSE 1
            immune == SelectSeq(entries, LAMBDA e : e.tier \in Immune)
        IN  /\ last'.token_count = s
            /\ last'.ok <=> (s <= capacity - Size(immune))
            /\ ~last'.ok =>
                  /\ last'.returned = <<>>
                  /\ \A j \in 1..Len(entries') :
                        \E i \in 1..Len(entries) : entries'[j] = entries[i]
            /\ last'.ok =>
                  /\ entries'[Len(entries')].content = last'.content
                  /\ entries'[Len(entries')].token_count = s
                  /\ \A j \in 1..(Len(entries') - 1) :
                        \E i \in 1..Len(entries) : entries'[j] = entries[i]]_vars

\* a store that would fit an empty shelf failed because of a PINNED entry
C5_Witness ==
    /\ last.op = "store" /\ ~last.ok
    /\ last.token_count <= capacity
    /\ \E i \in 1..Len(entries) : entries[i].tier = "PINNED"

\* C6: an eviction happens only while remaining < size of the new content:
\* a store whose content already fits removes nothing, and after a
\* successful store that evicted, used plus the size of the last evicted
\* entry exceeds the capacity.
C6_EvictOnlyWhileNeeded ==
    [][last'.op = "store" =>
        LET ev == last'.evicted
        IN  /\ \A k \in 1..Len(ev) :
                  capacity - Size(BeforeEviction(entries, ev, k)) < last'.token_count
            /\ capacity - Size(entries) >= last'.token_count =>
                  /\ ev = <<>>
                  /\ SubSeq(entries', 1, Len(entries)) = entries
            /\ (last'.ok /\ ev # <<>>) =>
                  Size(entries') + ev[Len(ev)].token_count > capacity]_vars

\* a successful store evicted and still left an evictable older entry
C6_Witness ==
    /\ last.op = "store" /\ last.ok
    /\ last.evicted # <<>>
    /\ \E i \in 1..(Len(entries) - 1) : entries[i].tier \notin Immune

\* C7: the sum of the entry sizes is at most the capacity after every shelf
\* operation (store, retrieve, promote, demote, compress) returns.
C7_CapacityAlways == Size(entries) <= capacity

\* C8: retrieve increments access_count by exactly 1 and sets last_accessed
\* to the time of the call for every entry it returns; two retrieve calls
\* in a row that both return an entry raise its access_count by 2 and leave
\* last_accessed at the time of the second call.
C8_RetrieveSideEffect ==
    [][last'.op = "retrieve" =>
        \A k \in 1..Len(last'.returned) :
           \E i \in 1..Len(entries) :
              /\ entries[i].id = last'.returned[k].id
              /\ entries'[i].id = entries[i].id
              /\ entries'[i].access_count = entries[i].access_count + 1
              /\ now <= entries'[i].last_accessed
              /\ entries'[i].last_accessed <= now'
              /\ tick = 1 => entries'[i].last_accessed > now
              /\ last.op = "retrieve" =>
                    \A h \in 1..Len(last.returned) :
                       last.returned[h].id = entries[i].id =>
                          entries'[i].access_count
                             = last.returned[h].access_count + 2]_vars

\* the second of two accesses to an entry was a retrieve, at a later time
C8_Witness ==
    /\ last.op = "retrieve"
    /\ tick = 1
    /\ \E k \in 1..Len(last.returned), i \in 1..Len(entries) :
          /\ entries[i].id = last.returned[k].id
          /\ last.returned[k].access_count = 1
          /\ entries[i].access_count = 2
          /\ entries[i].last_accessed > entries[i].created_at + 2

\* C9: with a strictly advancing clock, if A and B are in the same
\* eviction-eligible tier and a retrieve returned A, and not B, after the
\* last access to B, then no eviction removes A while B is on the shelf.
C9_RetrievalProtects ==
    [][last'.op = "store" =>
        \A k \in 1..Len(last'.evicted) :
           LET shelf == BeforeEviction(entries, last'.evicted, k)
               a == last'.evicted[k]
           IN  \A i \in 1..Len(shelf) :
                  (shelf[i].tier = a.tier /\ shelf[i].id # a.id) =>
                     <<a.id, shelf[i].id>> \notin retrievedAfter]_vars

\* a store evicted B and kept A of the same tier, A inserted before B and
\* retrieved after the last access to B
C9_Witness ==
    /\ last.op = "store"
    /\ tick = 1
    /\ \E k \in 1..Len(last.evicted), j \in 1..Len(entries) :
          /\ <<entries[j].id, last.evicted[k].id>> \in retrievedAfter
          /\ entries[j].tier = last.evicted[k].tier
          /\ entries[j].created_at < last.evicted[k].created_at

\* C10: retrieve(tier, tag_filter) returns exactly the entries e with
\* (tier is None or e.tier = tier) and e.tags[k] = v for every pair of
\* tag_filter, in shelf insertion order; no match gives an empty sequence
\* and no error.
C10_RetrieveFilter ==
    [][last'.op = "retrieve" =>
        LET has(e, k, v) == \E q \in e.tags : q[1] = k /\ q[2] = v
            wanted(e) == /\ last'.tier = NoTier \/ e.tier = last'.tier
                         /\ \A p \in last'.tag_filter : has(e, p[1], p[2])
            expected == SelectSeq(entries, wanted)
        IN  /\ last'.ok
            /\ Len(last'.returned) = Len(expected)
            /\ \A k \in 1..Len(expected) : last'.returned[k].id = expected[k].id
            /\ [i \in 1..Len(entries') |-> entries'[i].id]
                  = [i \in 1..Len(entries) |-> entries[i].id]]_vars

\* a one-pair filter returned two entries, one of them with an extra key,
\* and left out a third
C10_Witness ==
    /\ last.op = "retrieve"
    /\ Cardinality(last.tag_filter) = 1
    /\ Len(last.returned) = 2
    /\ Len(entries) = 3
    /\ \E i \in 1..Len(entries) :
          /\ entries[i].id = last.returned[1].id
          /\ Cardinality(entries[i].tags) = 2

\* what the holder of the list returned by the latest retrieve sees in it
HeldNow == IF held.alias THEN IdSeq(entries) ELSE held.returned

\* what the list handed out by the latest query-like call reads as now
IHeldNow == IF iheld.alias THEN IdSeq(chunks) ELSE iheld.returned

\* C11: a sequence returned by retrieve (with or without filters) or by
\* query, critical, stale or by_source is a snapshot: whatever store,
\* eviction, compress or index call comes later, it keeps the members and
\* the length it had when it was returned.
C11_ReturnedAreSnapshots ==
    /\ HeldNow = held.returned
    /\ IHeldNow = iheld.returned

\* C12: promote(entry, t) sets the tier to t and refreshes last_accessed;
\* demote(entry, t) sets the tier to t and leaves last_accessed and
\* access_count as they were; neither changes another entry, the order of
\* the entries, or used.
C12_PromoteDemoteFrame ==
    [][last'.op \in {"promote", "demote"} =>
        \E i \in 1..Len(entries) :
           /\ entries[i].id = last'.returned[1]
           /\ Len(entries') = Len(entries)
           /\ \A j \in 1..Len(entries) : j # i => entries'[j] = entries[j]
           /\ entries'[i].tier = last'.tier
           /\ entries'[i].id = entries[i].id
           /\ Size(entries') = Size(entries)
           /\ last'.op = "promote" =>
                 /\ now <= entries'[i].last_accessed
                 /\ entries'[i].last_accessed <= now'
                 /\ tick = 1 => entries'[i].last_accessed > entries[i].last_accessed
           /\ last'.op = "demote" =>
                 /\ entries'[i].last_accessed = entries[i].last_accessed
                 /\ entries'[i].access_count = entries[i].access_count]_vars

\* a demote of an entry whose last access lies before the latest clock reading
C12_Witness ==
    /\ last.op = "demote"
    /\ Len(entries) >= 2
    /\ \E i \in 1..Len(entries) :
          /\ entries[i].id = last.returned[1]
          /\ entries[i].tier = last.tier
          /\ entries[i].last_accessed < now

\* C13: after compress(tier) on a tier with at least one entry the shelf
\* holds exactly one entry of that tier, its source is "compression", none
\* of the tier's previous entries remains, and the entries of the other
\* tiers are unchanged and in the same relative order.
C13_CompressReplacesTier ==
    [][(last'.op = "compress" /\ \E i \in 1..Len(entries) : entries[i].tier = last'.tier) =>
        LET t == last'.tier
            after == SelectSeq(entries', LAMBDA e : e.tier = t)
        IN  /\ Len(after) = 1
            /\ after[1].source = "compression"
            /\ \A i \in 1..Len(entries) :
                  entries[i].tier = t => entries[i].id \notin Ids(entries')
            /\ SelectSeq(entries', LAMBDA e : e.tier # t)
                  = SelectSeq(entries, LAMBDA e : e.tier # t)]_vars

\* a compress merged two 3-character entries of source "a" (the summary
\* text has 21 + 8 + 5 + 8 characters) while an entry of another tier stayed
C13_Witness ==
    /\ last.op = "compress"
    /\ last.returned # <<>>
    /\ Len(entries) >= 2
    /\ \E i \in 1..Len(entries) :
          /\ entries[i].id = last.returned[1]
          /\ entries[i].source = "compression"
          /\ entries[i].content = 42

\* C14: compress(tier) on a non-empty tier returns the sum of the sizes of
\* the removed entries minus the size of the summary, which is used before
\* the call minus used after it; the value is not clamped: it is negative
\* exactly when the summary is larger than the entries it replaces.
C14_CompressFreed ==
    [][(last'.op = "compress" /\ \E i \in 1..Len(entries) : entries[i].tier = last'.tier) =>
        LET removed == SelectSeq(entries, LAMBDA e : e.tier = last'.tier)
            summary == entries'[Len(entries')]
        IN  /\ last'.freed = Size(removed) - summary.token_count
            /\ last'.freed = Size(entries) - Size(entries')
            /\ last'.freed < 0 <=> summary.token_count > Size(removed)]_vars

\* a compress whose summary is larger than what it replaced
C14_Witness ==
    /\ last.op = "compress"
    /\ last.freed < 0
    /\ Size(entries) > capacity

\* C15: compress(tier) on a tier with no entries returns 0 and leaves the
\* shelf entries unchanged; no summary entry is created.
C15_CompressEmptyTier ==
    [][(last'.op = "compress" /\ \A i \in 1..Len(entries) : entries[i].tier # last'.tier) =>
        /\ last'.freed = 0
        /\ last'.returned = <<>>
        /\ entries' = entries]_vars

\* a compress of an empty tier on a shelf that holds entries of other tiers
C15_Witness ==
    /\ last.op = "compress"
    /\ last.returned = <<>>
    /\ entries # <<>>

\* C16: content and token_count of an entry never change while it is on the
\* shelf, under store, retrieve, promote, demote, compress and snapshot;
\* only tier, last_accessed and access_count can change.
C16_ContentAndSizeImmutable ==
    [][\A i \in 1..Len(entries), j \in 1..Len(entries') :
          entries[i].id = entries'[j].id =>
             entries'[j] = [entries[i] EXCEPT
                              !.tier = entries'[j].tier,
                              !.last_accessed = entries'[j].last_accessed,
                              !.access_count = entries'[j].access_count]]_vars

\* an entry survived a compress of another tier after it was accessed
C16_Witness ==
    /\ last.op = "compress"
    /\ last.returned # <<>>
    /\ \E i \in 1..Len(entries) :
          /\ entries[i].source # "compression"
          /\ entries[i].access_count >= 1

\* C17: snapshot reports used + remaining = capacity, per-tier token totals
\* that sum to used and per-tier counts that sum to the number of entries;
\* snapshot changes no entry.
C17_SnapshotConsistent ==
    [][last'.op = "snapshot" =>
        LET snap == last'.returned
            order == <<"HOT", "WARM", "COLD", "PINNED", "SCRATCH">>
            tokens == SumOver([k \in 1..5 |-> snap.tiers[order[k]].tokens], 5)
            counts == SumOver([k \in 1..5 |-> snap.tiers[order[k]].count], 5)
        IN  /\ DOMAIN snap.tiers = {order[k] : k \in 1..5}
            /\ snap.capacity = capacity
            /\ snap.used = Size(entries)
            /\ snap.used + snap.remaining = snap.capacity
            /\ tokens = snap.used
            /\ counts = Len(entries)
            /\ entries' = entries]_vars

\* a snapshot of a shelf with entries of different sizes in several tiers
C17_Witness ==
    /\ last.op = "snapshot"
    /\ Len(entries) >= 2
    /\ last.returned.tiers["PINNED"].tokens = 2
    /\ last.returned.tiers["COLD"].count >= 1

\* the chunks of cs that agree with every dimension that is given
MatchesEvery(c, args) ==
    /\ args[1] # "None" => c.tag.type = args[1]
    /\ args[2] # "None" => c.tag.relevance = args[2]
    /\ args[3] # "None" => c.tag.volatility = args[3]
    /\ args[4] # "None" => c.tag.scope = args[4]
    /\ args[5] # "None" => c.tag.trust = args[5]

\* a sequence of ids is strictly increasing: insertion order, no repeats
Increasing(ids) == \A i, j \in 1..Len(ids) : i < j => ids[i] < ids[j]

Range(f) == {f[i] : i \in 1..Len(f)}

\* C18: query returns exactly the indexed items that equal every given
\* dimension, in insertion order; with no dimension given it returns every
\* item, and when nothing matches it returns the empty sequence.
C18_QueryExact ==
    [][ilast'.op = "query" =>
        /\ Range(ilast'.returned) =
               {chunks[i].id : i \in {k \in 1..Len(chunks) :
                                        MatchesEvery(chunks[k], ilast'.args)}}
        /\ Increasing(ilast'.returned)
        /\ ilast'.args = <<"None", "None", "None", "None", "None">>
              => ilast'.returned = IdSeq(chunks)
        /\ (\A k \in 1..Len(chunks) : ~MatchesEvery(chunks[k], ilast'.args))
              => ilast'.returned = <<>>
        /\ chunks' = chunks]_vars

\* a query on two dimensions returned one chunk of three; each of the other
\* two agrees with one of the two dimensions only
C18_Witness ==
    /\ ilast.op = "query"
    /\ ilast.args = <<"source-code", "critical", "None", "None", "None">>
    /\ Len(ilast.returned) = 1
    /\ \E i, j \in 1..Len(chunks) :
          /\ chunks[i].id \notin Range(ilast.returned)
          /\ chunks[j].id \notin Range(ilast.returned)
          /\ chunks[i].tag.type = "source-code"
          /\ chunks[j].tag.relevance = "critical"

\* C19: stale() returns exactly the items whose trust is STALE or whose
\* volatility is STALE_RISK: the union of query(trust=STALE) and
\* query(volatility=STALE_RISK), each item once, in insertion order, and
\* no item with neither value.
C19_StaleIsUnion ==
    [][ilast'.op = "stale" =>
        /\ Range(ilast'.returned) =
               Ids(QueryResult(chunks, "None", "None", "None", "None", "stale"))
               \cup Ids(QueryResult(chunks, "None", "None", "stale-risk", "None", "None"))
        /\ Increasing(ilast'.returned)
        /\ \A k \in 1..Len(chunks) :
              (chunks[k].tag.trust # "stale" /\ chunks[k].tag.volatility # "stale-risk")
                 => chunks[k].id \notin Range(ilast'.returned)
        /\ chunks' = chunks]_vars

\* stale() returned a chunk that is stale by trust only, one that is stale
\* by volatility only, and left out a chunk that is neither
C19_Witness ==
    /\ ilast.op = "stale"
    /\ \E i, j, k \in 1..Len(chunks) :
          /\ chunks[i].id \in Range(ilast.returned)
          /\ chunks[i].tag.trust = "stale" /\ chunks[i].tag.volatility # "stale-risk"
          /\ chunks[j].id \in Range(ilast.returned)
          /\ chunks[j].tag.trust # "stale" /\ chunks[j].tag.volatility = "stale-risk"
          /\ chunks[k].id \notin Range(ilast.returned)

\* C20: the index is append-only: every index or index_raw call makes the
\* list exactly one longer by appending the item at the end, also when an
\* equal item is already indexed; no call removes or reorders items, so the
\* list before a call is a prefix of the list after it.
C20_AppendOnly ==
    [][/\ Len(chunks') >= Len(chunks)
       /\ SubSeq(chunks', 1, Len(chunks)) = chunks
       /\ ilast'.op \in {"index", "index_raw"} =>
             /\ Len(chunks') = Len(chunks) + 1
             /\ chunks'[Len(chunks')].content = ilast'.args[1]
             /\ chunks'[Len(chunks')].source = ilast'.args[2]
       /\ ilast'.op \in {"query", "critical", "stale", "by_source"} =>
             chunks' = chunks]_vars

\* an item equal to one already indexed was appended by the latest call
C20_Witness ==
    /\ ilast.op \in {"index", "index_raw"}
    /\ Len(chunks) >= 3
    /\ \E i \in 1..(Len(chunks) - 1) : SameValue(chunks[i], chunks[Len(chunks)])

\* C21: no index operation (index, index_raw, query, critical, stale,
\* by_source, summary, auto_tag) changes the tag, content, source or size
\* of an item that is already indexed; indexing a second item with the
\* same source and a different tag leaves the first item's tag as it was.
C21_IndexedItemsImmutable ==
    [][\A i \in 1..Len(chunks) :
          /\ i <= Len(chunks')
          /\ chunks'[i].tag = chunks[i].tag
          /\ chunks'[i].content = chunks[i].content
          /\ chunks'[i].source = chunks[i].source
          /\ chunks'[i].token_count = chunks[i].token_count]_vars

\* the latest call indexed an item whose source an earlier item has, with
\* another tag
C21_Witness ==
    /\ ilast.op \in {"index", "index_raw"}
    /\ \E i \in 1..(Len(chunks) - 1) :
          /\ chunks[i].source = chunks[Len(chunks)].source
          /\ chunks[i].tag # chunks[Len(chunks)].tag

\* the five dimensions of a tag and their keys in the summary
Dimensions ==
    {<<"type", "by_type">>, <<"relevance", "by_relevance">>,
     <<"volatility", "by_volatility">>, <<"scope", "by_scope">>, <<"trust", "by_trust">>}

\* sum of the values of a map
RECURSIVE SumValues(_)
SumValues(f) ==
    IF DOMAIN f = {} THEN 0
    ELSE LET k == CHOOSE k \in DOMAIN f : TRUE
         IN  f[k] + SumValues([x \in DOMAIN f \ {k} |-> f[x]])

\* C23: summary() reports total_chunks = number of indexed items and
\* total_tokens = sum of their sizes, and for each of the five dimensions a
\* map whose keys are exactly the values carried by at least one indexed
\* item and whose value for a key is the sum of the sizes (not the count)
\* of the items carrying it; so each map's values sum to total_tokens.
C23_SummaryTotals ==
    [][ilast'.op = "summary" =>
        LET r == ilast'.returned
        IN  /\ r.total_chunks = Len(chunks)
            /\ r.total_tokens = Size(chunks)
            /\ \A d \in Dimensions :
                  /\ DOMAIN r[d[2]] = {chunks[i].tag[d[1]] : i \in 1..Len(chunks)}
                  /\ \A k \in DOMAIN r[d[2]] :
                        r[d[2]][k] = Size(SelectSeq(chunks, LAMBDA c : c.tag[d[1]] = k))
                  /\ SumValues(r[d[2]]) = r.total_tokens
            /\ chunks' = chunks]_vars

\* a summary of three items: two share a type whose total is the sum of
\* their sizes and differs from their number, and a second type is present
C23_Witness ==
    /\ ilast.op = "summary"
    /\ ilast.returned.total_chunks = 3
    /\ Cardinality(DOMAIN ilast.returned.by_type) = 2
    /\ \E i, j \in 1..Len(chunks) :
          /\ i < j
          /\ chunks[i].tag.type = chunks[j].tag.type
          /\ chunks[i].token_count + chunks[j].token_count # 2
          /\ ilast.returned.by_type[chunks[i].tag.type] =
                 chunks[i].token_count + chunks[j].token_count

\* C22: round trip by source: after index_raw(content, source = s, ...), or
\* after engine.feed_context with source s and any shelf tier, by_source(s)
\* returns exactly the indexed items whose source equals s, which includes
\* the item just added, and no item with a different source.
C22_BySourceRoundTrip ==
    [][/\ ilast'.op = "by_source" =>
             /\ Range(ilast'.returned) =
                    {chunks[i].id : i \in {k \in 1..Len(chunks) :
                                             chunks[k].source = ilast'.args[1]}}
             /\ Increasing(ilast'.returned)
       /\ Len(chunks') = Len(chunks) + 1 =>
             LET new == chunks'[Len(chunks')]
                 back == BySourceResult(chunks', ilast'.args[2])
             IN  /\ ilast'.op = "index_raw"
                 /\ new.source = ilast'.args[2]
                 /\ new.id \in Ids(back)
                 /\ \A k \in 1..Len(chunks') :
                       chunks'[k].id \in Ids(back) <=> chunks'[k].source = new.source]_vars

\* by_source returned two items of a source that feed_context recorded, the
\* latest item among them, and left out an item of another source
C22_Witness ==
    /\ ilast.op = "by_source"
    /\ ilast.args[1] \in DOMAIN acquired
    /\ Len(ilast.returned) = 2
    /\ chunks[Len(chunks)].id \in Range(ilast.returned)
    /\ \E k \in 1..Len(chunks) : chunks[k].id \notin Range(ilast.returned)

\* C24: for every content string, shelf.store and index.index_raw assign
\* the same size, max(1, floor(len(content) / 4)): a positive integer, 1
\* for contents of length 0 to 7.
C24_SameSize ==
    [][(chunks' # chunks /\ entries' # entries) =>
          LET e == entries'[Len(entries')]
              c == chunks'[Len(chunks')]
          IN  /\ e.content = c.content
              /\ e.token_count = c.token_count
              /\ c.token_count >= 1
              /\ c.content <= 7 => c.token_count = 1
              /\ c.content >= 4 =>
                    /\ 4 * c.token_count <= c.content
                    /\ c.content < 4 * c.token_count + 4]_vars

\* the shelf and the index both hold a content of length 7 with size 1 and
\* a content of length 8 with size 2
C24_Witness ==
    /\ \E i, j \in 1..Len(entries) :
          /\ entries[i].content = 7 /\ entries[i].token_count = 1
          /\ entries[j].content = 8 /\ entries[j].token_count = 2
    /\ \E i, j \in 1..Len(chunks) :
          /\ chunks[i].content = 7 /\ chunks[i].token_count = 1
          /\ chunks[j].content = 8 /\ chunks[j].token_count = 2

\* C25: when store raises the Capacity error, every entry that was in
\* SCRATCH, COLD or WARM before the call has been removed from the shelf
\* (the failed call is not state-preserving), while every HOT and PINNED
\* entry is still present with all fields unchanged.
C25_FailedStoreEvictsAll ==
    [][(last'.op = "store" /\ ~last'.ok) =>
          /\ \A i \in 1..Len(entries) :
                entries[i].tier \in {"SCRATCH", "COLD", "WARM"}
                   => entries[i].id \notin Ids(entries')
          /\ \A i \in 1..Len(entries) :
                entries[i].tier \in Immune
                   => \E j \in 1..Len(entries') : entries'[j] = entries[i]
          /\ Len(entries') = Len(SelectSeq(entries, LAMBDA e : e.tier \in Immune))]_vars

\* a store raised after removing a COLD and a WARM entry; a HOT entry is left
C25_Witness ==
    /\ last.op = "store"
    /\ ~last.ok
    /\ \E j, k \in 1..Len(last.evicted) :
          last.evicted[j].tier = "COLD" /\ last.evicted[k].tier = "WARM"
    /\ \E i \in 1..Len(entries) : entries[i].tier = "HOT"

\* C26: a successful store adds exactly one entry, placed last in insertion
\* order, with the given tier and source, the given tags (empty map when
\* none given), access_count 0 and last_accessed equal to its creation
\* time; every entry that survives the call keeps its tier, tags,
\* last_accessed, access_count and relative order.
C26_StoreAddsOneEntry ==
    [][(last'.op = "store" /\ last'.ok) =>
          LET new == entries'[Len(entries')]
              kept == SubSeq(entries', 1, Len(entries') - 1)
          IN  /\ Len(entries') = Len(entries) - Len(last'.evicted) + 1
              /\ new.id \notin Ids(entries)
              /\ new.tier = last'.tier
              /\ new.content = last'.content
              /\ <<new.content, new.tier, new.source, new.tags>> \in StoreArgs
              /\ new.access_count = 0
              /\ new.last_accessed = new.created_at
              /\ kept = SelectSeq(entries, LAMBDA e : e.id \in Ids(kept))]_vars

\* the tiers the calls of StoreArgs give to a content of this length
StoredTiers(content) == {a[2] : a \in {x \in StoreArgs : x[1] = content}}

\* C27: the entries evicted by store depend only on the size of the new
\* content and the shelf state, not on the tier given to the new content:
\* two copies of the same shelf receiving store calls with the same content
\* and different tiers evict the same entries; in particular storing a
\* SCRATCH entry can evict COLD and WARM entries.
C27_EvictionIgnoresNewTier ==
    [][last'.op = "store" =>
          \A t \in ShelfTier \ {last'.tier} :
             [store(entries, last'.content, t, "a", {}) EXCEPT !.entries = <<>>]
                = [ok |-> last'.ok, entries |-> <<>>, evicted |-> last'.evicted,
                   token_count |-> last'.token_count, returned |-> last'.returned,
                   now |-> now']]_vars

\* a store of a SCRATCH entry evicted a COLD and a WARM entry
C27_Witness ==
    /\ last.op = "store"
    /\ last.ok
    /\ last.tier = "SCRATCH"
    /\ \E j, k \in 1..Len(last.evicted) :
          last.evicted[j].tier = "COLD" /\ last.evicted[k].tier = "WARM"

\* C28: eviction eligibility follows an entry's current tier, not the tier
\* it was stored with: an entry stored as HOT or PINNED and later demoted
\* to SCRATCH, COLD or WARM can be evicted by a later store, and an entry
\* promoted to HOT or PINNED is not evicted by any store for as long as it
\* stays in that tier.
C28_EligibilityByCurrentTier ==
    [][last'.op = "store" =>
          /\ \A k \in 1..Len(last'.evicted) :
                \E i \in 1..Len(entries) :
                   /\ entries[i] = last'.evicted[k]
                   /\ entries[i].tier \in EvictableTiers
          /\ \A i \in 1..Len(entries) :
                entries[i].tier \in Immune
                   => /\ entries[i].id \in Ids(entries')
                      /\ \A k \in 1..Len(last'.evicted) :
                            last'.evicted[k].id # entries[i].id]_vars

\* a store evicted an entry that can only have been stored as HOT or PINNED
\* (so it was demoted since), and left an entry that is HOT now
C28_Witness ==
    /\ last.op = "store"
    /\ \E k \in 1..Len(last.evicted) :
          /\ last.evicted[k].source # "compression"
          /\ StoredTiers(last.evicted[k].content) # {}
          /\ StoredTiers(last.evicted[k].content) \subseteq Immune
          /\ last.evicted[k].tier \in EvictableTiers
    /\ \E i \in 1..Len(entries) : entries[i].tier \in Immune

\* C29: retrieve changes nothing except last_accessed and access_count of
\* the entries it returns: shelf membership, entry order, used, and every
\* field of every entry not matching the filter (including its
\* last_accessed and access_count) are unchanged.
C29_RetrieveFrame ==
    [][last'.op = "retrieve" =>
          LET got == {last'.returned[k].id : k \in 1..Len(last'.returned)}
          IN  /\ IdSeq(entries') = IdSeq(entries)
              /\ Size(entries') = Size(entries)
              /\ capacity' = capacity
              /\ \A i \in 1..Len(entries) :
                    /\ entries[i].id \notin got => entries'[i] = entries[i]
                    /\ [entries'[i] EXCEPT !.last_accessed = 0, !.access_count = 0]
                          = [entries[i] EXCEPT !.last_accessed = 0, !.access_count = 0]]_vars

\* a filtered retrieve returned one entry and passed over another that had
\* been accessed before
C29_Witness ==
    /\ last.op = "retrieve"
    /\ Len(last.returned) >= 1
    /\ \E i \in 1..Len(entries) :
          /\ \A k \in 1..Len(last.returned) : last.returned[k].id # entries[i].id
          /\ entries[i].access_count >= 1

\* C30: the shelf has no internal locking: store is safe only under
\* external mutual exclusion.  As long as no store call has begun while
\* another was between its capacity check and its append, the sum of the
\* sizes is within capacity; when the steps of two store calls interleave,
\* both can pass the check and append, and used exceeds capacity.
C30_AtomicStoresWithinCapacity == ~overlapped => Size(entries) <= capacity

\* two store calls overlapped, both have returned, and used > capacity
C30_Witness ==
    /\ overlapped
    /\ \A t \in Threads : threads[t].pc = "idle"
    /\ last.op = "store" /\ last.ok
    /\ Size(entries) > capacity

\* C31: a feed_context that succeeds adds exactly one shelf entry and one
\* index item, both with the source and the content given and with the same
\* size, and records the content under its source; when store raises, no
\* item is indexed and acquired_content is left as it was; and no later
\* call, an eviction or a compression of the shelf entry included, removes
\* or changes an index item.
C31_FeedAddsOneOfEach ==
    [][/\ Len(chunks') >= Len(chunks)
       /\ \A i \in 1..Len(chunks) : chunks'[i] = chunks[i]
       /\ (engine'.last.op = "feed_context" /\ engine'.last.at = calls') =>
             LET content == engine'.last.args[1]
                 source == engine'.last.args[2]
                 e == entries'[Len(entries')]
                 c == chunks'[Len(chunks')]
             IN  IF engine'.last.raised
                 THEN /\ chunks' = chunks
                      /\ acquired' = acquired
                      /\ Ids(entries') \subseteq Ids(entries)
                 ELSE /\ Len(chunks') = Len(chunks) + 1
                      /\ Cardinality(Ids(entries') \ Ids(entries)) = 1
                      /\ e.id \notin Ids(entries)
                      /\ e.source = source /\ c.source = source
                      /\ e.content = Len(Chars(content))
                      /\ c.content = Len(Chars(content))
                      /\ e.token_count = c.token_count
                      /\ e.tier = engine'.last.args[3]
                      /\ DOMAIN acquired' = DOMAIN acquired \cup {source}
                      /\ acquired'[source] = content
                      /\ \A x \in DOMAIN acquired \ {source} : acquired'[x] = acquired[x]]_vars

\* a feed that has just evicted an entry an earlier feed stored, while the
\* index item of that earlier feed is still in the index
C31_Witness ==
    /\ engine.last.op = "feed_context"
    /\ engine.last.at = calls
    /\ ~engine.last.raised
    /\ last.evicted # <<>>
    /\ \E i \in 1..Len(chunks) : /\ chunks[i].source = last.evicted[1].source
                                 /\ chunks[i].content = last.evicted[1].content
    /\ \A j \in 1..Len(entries) : entries[j].id # last.evicted[1].id

\* C32: when store raises Capacity exhaustion inside a call of the
\* orchestrator (run, _shelf_layer_output, feed_context), the orchestrator
\* catches it, compresses a tier and retries the store once: a call that
\* ends by the exception has made a store, a compress and a second store.
C32_CatchCompressRetry ==
    engine.last.raised =>
        \E k \in 1..(Len(engine.last.shelf_calls) - 2) :
            SubSeq(engine.last.shelf_calls, k, k + 2) = <<"store", "compress", "store">>

\* position in the stack of the layer of a given name
LayerIndex(name) == CHOOSE i \in 1..Len(LayerNames) : LayerNames[i] = name

\* the places in history of the layer runs of the latest run
ThisRun == (engine.run_start + 1)..Len(engine.history)

\* C33: run terminates for every outcome of the layers: the loop makes at
\* most max_total_iterations iterations, skipped layers included, so a call
\* records at most that many layer runs in history, and a run that has
\* begun comes to its end.
C33_RunTerminates ==
    /\ [](/\ engine.total_iterations <= engine.max_total_iterations
          /\ Cardinality(ThisRun) <= engine.max_total_iterations)
    /\ (engine.pc # "idle") ~> (engine.pc = "idle")

\* a run that the iteration limit has ended, short of the last layer and
\* with no abort
C33_Witness ==
    /\ engine.last.op = "run"
    /\ engine.pc = "idle"
    /\ ~engine.last.raised
    /\ engine.total_iterations = engine.max_total_iterations
    /\ engine.current_layer_idx < Len(LayerNames)
    /\ engine.context.aborted_at = ""
    /\ Cardinality(ThisRun) = engine.max_total_iterations

\* C34: a fallback never moves forward: when the layer at position i has
\* returned FAILED and the run is not aborted, the next layer run is at a
\* position no higher than i; plan_recovery answers, for every layer and
\* failure count, a layer no higher than the failed one and no lower than
\* the first.
C34_FallbackNeverForward ==
    /\ \A k \in ThisRun \ {Len(engine.history)} :
          engine.history[k].status = "FAILED" =>
              LayerIndex(engine.history[k + 1].layer_name)
                  <= LayerIndex(engine.history[k].layer_name)
    /\ (/\ engine.pc \in {"compress", "loop"}
        /\ ThisRun # {}
        /\ engine.history[Len(engine.history)].status = "FAILED") =>
          engine.current_layer_idx + 1
              <= LayerIndex(engine.history[Len(engine.history)].layer_name)
    /\ engine.last.op = "plan_recovery" =>
          engine.last.returned \in 1..engine.last.args[1]

\* a second failure of Comprehend has sent the run back to Orient
C34_Witness ==
    \E k \in ThisRun \ {Len(engine.history)} :
        /\ engine.history[k].status = "FAILED"
        /\ engine.history[k].layer_name = "comprehend"
        /\ engine.history[k + 1].layer_name = "orient"

\* C35: within one run on a fresh engine a layer returns FAILED at most
\* max_layer_retries times; with the failure that reaches the count the run
\* stops at once, aborted_at is the name of the layer and abort_reason its
\* gaps, and no further layer is run.
C35_RetryLimitAborts ==
    engine.runs = 1 =>
        \A l \in 1..Len(LayerNames) :
            LET failures == {k \in ThisRun : /\ engine.history[k].layer_name = LayerNames[l]
                                             /\ engine.history[k].status = "FAILED"}
                final == engine.history[Len(engine.history)]
            IN  /\ Cardinality(failures) <= engine.max_layer_retries
                /\ Cardinality(failures) = engine.max_layer_retries =>
                      /\ Len(engine.history) \in failures
                      /\ engine.context.aborted_at = LayerNames[l]
                      /\ engine.context.abort_reason = final.gaps
                      /\ engine.pc \in {"return", "idle"}

\* the first run of an engine, aborted at the third failure of Comprehend
C35_Witness ==
    /\ engine.runs = 1
    /\ engine.pc = "idle"
    /\ engine.max_layer_retries = 3
    /\ engine.failure_counts[3] = 3
    /\ engine.context.aborted_at = "comprehend"
    /\ engine.context.abort_reason = <<"could not determine invariants">>

\* C36: a layer is run only after every lower layer has returned SATISFIED
\* in the same run; Execute in particular only when Orient, Acquire,
\* Comprehend and Strategize have all been satisfied, whatever the task
\* type and whichever layer the router skips.
C36_LowerLayersSatisfiedFirst ==
    \A k \in ThisRun :
        \A l \in 1..(LayerIndex(engine.history[k].layer_name) - 1) :
            \E m \in ThisRun : /\ m < k
                               /\ engine.history[m].layer_name = LayerNames[l]
                               /\ engine.history[m].status = "SATISFIED"

\* the nodes of a row of the cycle c, each followed by its whole chain
RowNodes(c, row) ==
    Flatten([p \in 1..Len(row) |->
                <<row[p]>> \o Chain(c.nodes, c.nodes[row[p]].extensions)])

\* C37: after pick_path(i) with i a row index of the current turn every
\* baseline node of row i is ACTIVE and every baseline node of every other
\* row, and each of its direct extensions, is UNCHOSEN and COMPLETED, so
\* that exactly one row remains chosen; with any other i every row becomes
\* UNCHOSEN and the call returns an empty path.
C37_PickPathChoosesOneRow ==
    [][cycle'.last.op = "pick_path" /\ cycle'.turns # <<>> =>
          LET c == cycle'
              rows == c.turns[Len(c.turns)].rows
              i == c.last.args[1] + 1
              Unchosen(a) == /\ c.nodes[a].type = "UNCHOSEN"
                             /\ c.nodes[a].status = "COMPLETED"
              RowUnchosen(r) ==
                  \A p \in 1..Len(rows[r]) :
                      /\ Unchosen(rows[r][p])
                      /\ \A k \in 1..Len(c.nodes[rows[r][p]].extensions) :
                             Unchosen(c.nodes[rows[r][p]].extensions[k])
          IN  IF i \in 1..Len(rows)
              THEN /\ \A p \in 1..Len(rows[i]) : c.nodes[rows[i][p]].status = "ACTIVE"
                   /\ \A r \in (1..Len(rows)) \ {i} : RowUnchosen(r)
                   /\ {r \in 1..Len(rows) : ~RowUnchosen(r)} = {i}
                   /\ Len(c.last.returned) = Len(rows[i])
                   /\ \A p \in 1..Len(rows[i]) :
                          c.last.returned[p] = c.nodes[rows[i][p]].id
              ELSE /\ \A r \in 1..Len(rows) : RowUnchosen(r)
                   /\ c.last.returned = <<>>]_vars

\* a row has been picked while a node of another row had an extension
C37_Witness ==
    /\ cycle.last.op = "pick_path"
    /\ cycle.turns # <<>>
    /\ LET rows == cycle.turns[Len(cycle.turns)].rows
           i == cycle.last.args[1] + 1
       IN  /\ i \in 1..Len(rows)
           /\ \E r \in (1..Len(rows)) \ {i} :
                  \E p \in 1..Len(rows[r]) : cycle.nodes[rows[r][p]].extensions # <<>>

\* C38: is_path_complete is true only when every baseline (TOOL or COLLAB)
\* node on the chosen path is COMPLETED or FAILED, the unchosen pool of the
\* turn is empty and every extension node on the path is COMPLETED or
\* FAILED; and after pick_path, reclaim returns a node at most as many
\* times as there were nodes in the rows not chosen, and None afterwards.
C38_PathCompleteMeansAllDone ==
    /\ [](/\ cycle.turns # <<>>
          /\ cycle.turns[Len(cycle.turns)].picked # <<>>
          /\ cycle.turns[Len(cycle.turns)].picked[1] + 1
                 \in 1..Len(cycle.turns[Len(cycle.turns)].rows)
          /\ is_path_complete(cycle)
          => LET turn == cycle.turns[Len(cycle.turns)]
                 path == RowNodes(cycle, turn.rows[turn.picked[1] + 1])
                 Done(a) == cycle.nodes[a].status \in {"COMPLETED", "FAILED"}
             IN  /\ \A k \in 1..Len(path) :
                        cycle.nodes[path[k]].type \in {"TOOL", "COLLAB"} => Done(path[k])
                 /\ turn.unchosen_pool = <<>>
                 /\ \A k \in 1..Len(path) :
                        cycle.nodes[path[k]].type \in {"TOOL_EXT", "COLLAB_EXT", "EMERGE"}
                            => Done(path[k]))
    /\ [][/\ (cycle'.last.op = "pick_path" /\ cycle'.turns # <<>>) =>
                LET turn == cycle'.turns[Len(cycle'.turns)]
                    others == (1..Len(turn.rows)) \ {cycle'.last.args[1] + 1}
                IN  Len(turn.unchosen_pool) =
                        SumOver([r \in 1..Len(turn.rows) |->
                                    IF r \in others THEN Len(turn.rows[r]) ELSE 0],
                                Len(turn.rows))
          /\ (cycle'.last.op = "reclaim" /\ cycle'.last.returned # <<>>) =>
                /\ cycle.turns[Len(cycle.turns)].unchosen_pool # <<>>
                /\ cycle'.turns[Len(cycle.turns)].unchosen_pool
                       = Tail(cycle.turns[Len(cycle.turns)].unchosen_pool)]_vars

\* C39: after scan_turn with the default criteria every node of the turn
\* has been checked, the extensions at any depth among them (extensions of
\* extensions, nodes grafted by reclaim), so that none is left PLANNED.
C39_ScanChecksEveryNode ==
    [][(/\ cycle'.last.op = "scan_turn"
        /\ cycle'.last.args[1] = <<>>
        /\ cycle'.turns # <<>>) =>
          LET rows == cycle'.turns[Len(cycle'.turns)].rows
          IN  \A r \in 1..Len(rows) :
                  LET all == RowNodes(cycle', rows[r])
                  IN  \A k \in 1..Len(all) : cycle'.nodes[all[k]].status # "PLANNED"]_vars

\* C40: preview() previews the boot decision without loading: the call
\* leaves the entries of the attached shelf and its used size exactly as
\* they were, whatever the run log holds, logs that lead to a context boot
\* among them.
C40_PreviewLeavesShelf ==
    [][boot'.last.op = "preview" =>
          /\ entries' = entries
          /\ used(entries') = used(entries)]_vars

====
